---- MODULE Spec2Model ----
(***************************************************************************)
(* Model of the analytical core of the project-management backend:         *)
(*   backend/utils/critical_path.py   CriticalPathCalculator               *)
(*   backend/utils/risk_detector.py   RiskDetector                         *)
(*   backend/utils/json_parser.py     ProjectParser                        *)
(*   backend/utils/ai_json_analyzer.py AIJsonAnalyzer                      *)
(*                                                                         *)
(* A task is a record [id, duree_estimee, predecesseurs,                   *)
(* ressources_requises], the shape ProjectParser.get_tasks produces and    *)
(* CriticalPathCalculator / RiskDetector read.  Python dicts are functions *)
(* whose domain is the set of keys; the empty dict is <<>>.                *)
(*                                                                         *)
(* networkx is a library outside the repository.  Its documented           *)
(* behaviour is modelled: DiGraph keeps nodes and adjacency in insertion   *)
(* order, simple_cycles returns every elementary circuit once (self-loops  *)
(* as one-node cycles) in an order and rotation the caller cannot rely on, *)
(* topological_sort raises NetworkXUnfeasible on a cyclic graph, and       *)
(* all_simple_paths (networkx >= 3.2) yields the one-node path when source *)
(* and target coincide.                                                    *)
(*                                                                         *)
(* The two parsers work on raw JSON.  A Python value is a pair             *)
(* <<type name, payload>>; str(), lower(), strip(), split(), float() and   *)
(* json.loads() are computed on the texts the inputs carry.  A parser      *)
(* construction leaves the exception it raised ("none" when it returned)   *)
(* and the task list it produced.                                          *)
(***************************************************************************)
EXTENDS Integers, Sequences, FiniteSets, TLC

VARIABLES tasks, cycles, earliest_start_times, latest_start_times, raw_data, result,
          user_sessions, LAST_CLEANUP_TIME, now, session_ids

vars == <<tasks, cycles, earliest_start_times, latest_start_times, raw_data, result,
          user_sessions, LAST_CLEANUP_TIME, now, session_ids>>

\* the state of the web application: the session store, the instant of the
\* last sweep, the clock and the session ids generated so far
app_vars == <<user_sessions, LAST_CLEANUP_TIME, now, session_ids>>

\* the application as the module is loaded, no request made
NoSessions ==
    /\ user_sessions = <<>>
    /\ LAST_CLEANUP_TIME = 0
    /\ now = 0
    /\ session_ids = {}

\* ---------------------------------------------------------------- bounds
\* the longest task list, the largest duration and the most dependency
\* entries of the exhaustively enumerated task lists
MaxTasks == 2
MaxDur == 2
MaxEdges == 2
\* the longest resource list of a task
MaxRes == 2

\* ------------------------------------------------------- generic helpers
Max2(a, b) == IF a >= b THEN a ELSE b
Min2(a, b) == IF a <= b THEN a ELSE b

RECURSIVE SetMax(_)
SetMax(S) == IF S = {} THEN 0
             ELSE LET x == CHOOSE y \in S : TRUE
                  IN IF S = {x} THEN x ELSE Max2(x, SetMax(S \ {x}))

RECURSIVE SetMin(_)
SetMin(S) == LET x == CHOOSE y \in S : TRUE
             IN IF S = {x} THEN x ELSE Min2(x, SetMin(S \ {x}))

RECURSIVE SeqSum(_)
SeqSum(s) == IF s = <<>> THEN 0 ELSE Head(s) + SeqSum(Tail(s))

Range(s) == {s[i] : i \in DOMAIN s}

\* ------------------------------------------------- CriticalPathCalculator
\* the ids of the task list, in list order
TaskIds(ts) == {ts[i].id : i \in DOMAIN ts}

\* self.task_map: a dict comprehension, the last task with an id wins
task_map(ts) ==
    [tid \in TaskIds(ts) |->
        ts[CHOOSE i \in DOMAIN ts :
              ts[i].id = tid /\ \A j \in DOMAIN ts : ts[j].id = tid => j <= i]]

\* self.task_map[node].get('duree_estimee', 0) if node in self.task_map else 0
Weight(ts, n) == IF n \in TaskIds(ts) THEN task_map(ts)[n].duree_estimee ELSE 0

\* mutant of _build_graph: an edge for every dependency entry, whether or
\* not it names a node
_build_graph_KeepDangling(ts) ==
    UNION {{<<p, ts[i].id>> : p \in ts[i].predecesseurs} : i \in DOMAIN ts}

\* _build_graph: the edge set of the DiGraph; its nodes are TaskIds(ts) in
\* list order.  An edge pred -> task is added only when pred is a node.
_build_graph(ts) ==
    {e \in TaskIds(ts) \X TaskIds(ts) :
        \E i \in DOMAIN ts : ts[i].id = e[2] /\ e[1] \in ts[i].predecesseurs}

in_degree(E, n) == Cardinality({e \in E : e[2] = n})
out_degree(E, n) == Cardinality({e \in E : e[1] = n})
successors(E, n) == {e[2] : e \in {x \in E : x[1] = n}}
predecessors(E, n) == {e[1] : e \in {x \in E : x[2] = n}}

\* nx.simple_cycles: all elementary circuits, every rotation of each
IsCycle(E, c) ==
    /\ \A i, j \in DOMAIN c : i /= j => c[i] /= c[j]
    /\ \A i \in DOMAIN c : <<c[i], c[(i % Len(c)) + 1]>> \in E

SimpleCycleRotations(N, E) ==
    {c \in UNION {[1..k -> N] : k \in 1..Cardinality(N)} : IsCycle(E, c)}

Rotations(c) ==
    {[i \in DOMAIN c |-> c[((i + k - 1) % Len(c)) + 1]] : k \in 0..(Len(c) - 1)}

CycleClasses(N, E) == {Rotations(c) : c \in SimpleCycleRotations(N, E)}

\* list(nx.simple_cycles(G)): one rotation of every circuit, in some order
RECURSIVE CycleLists(_)
CycleLists(classes) ==
    IF classes = {} THEN {<<>>}
    ELSE UNION {{<<c>> \o rest : c \in K, rest \in CycleLists(classes \ {K})} :
                K \in classes}

simple_cycles(ts) == CycleLists(CycleClasses(TaskIds(ts), _build_graph(ts)))

\* _break_cycle: remove the first edge of the cycle, among those still in G,
\* whose source task has the lowest duration
CycleEdge(c, i) == <<c[i], c[(i % Len(c)) + 1]>>

\* mutant of _break_cycle: cycles of two tasks are left alone
_break_cycle_SkipPairs(ts, E, c) ==
    IF Len(c) < 3 THEN E
    ELSE LET present == {i \in DOMAIN c : CycleEdge(c, i) \in E}
         IN IF present = {} THEN E
            ELSE E \ {CycleEdge(c, CHOOSE i \in present : TRUE)}

_break_cycle(ts, E, c) ==
    IF Len(c) < 2 THEN E
    ELSE LET present == {i \in DOMAIN c : CycleEdge(c, i) \in E}
             best == {i \in present :
                        \A j \in present :
                            /\ Weight(ts, c[i]) <= Weight(ts, c[j])
                            /\ (j < i => Weight(ts, c[j]) > Weight(ts, c[i]))}
         IN IF present = {} THEN E
            ELSE E \ {CycleEdge(c, CHOOSE i \in best : TRUE)}

\* for cycle in cycles: self._break_cycle(G, cycle)
RECURSIVE BreakCycles(_, _, _)
BreakCycles(ts, E, cs) ==
    IF cs = <<>> THEN E
    ELSE BreakCycles(ts, _break_cycle(ts, E, Head(cs)), Tail(cs))

\* the graph every computation works on: built, then cycles broken
EffectiveGraph(ts, cs) == BreakCycles(ts, _build_graph(ts), cs)

\* whether nx.topological_sort succeeds
RECURSIVE IsAcyclicFrom(_, _)
IsAcyclicFrom(N, E) ==
    IF N = {} THEN TRUE
    ELSE LET src == {n \in N : ~\E e \in E : e[2] = n /\ e[1] \in N}
         IN IF src = {} THEN FALSE ELSE IsAcyclicFrom(N \ src, E)

IsDAG(N, E) == IsAcyclicFrom(N, E)

\* nx.all_simple_paths(G, start, end), in depth-first order; adjacency is in
\* insertion order, which is the list order of the successor tasks
RECURSIVE PathsFrom(_, _, _, _, _), PathsVia(_, _, _, _, _, _)
PathsFrom(ts, E, u, end, visited) ==
    IF u = end THEN << <<u>> >>
    ELSE PathsVia(ts, E, u, end, visited, 1)
PathsVia(ts, E, u, end, visited, i) ==
    IF i > Len(ts) THEN <<>>
    ELSE LET v == ts[i].id
             sub == IF <<u, v>> \in E /\ v \notin visited
                       /\ \A j \in 1..(i - 1) : ts[j].id /= v
                    THEN PathsFrom(ts, E, v, end, visited \cup {v})
                    ELSE <<>>
         IN [k \in DOMAIN sub |-> <<u>> \o sub[k]] \o
            PathsVia(ts, E, u, end, visited, i + 1)

\* mutant of all_simple_paths: nothing is yielded when source and target
\* coincide
all_simple_paths_NoTrivialPath(ts, E, start, end) ==
    IF start = end THEN <<>> ELSE PathsFrom(ts, E, start, end, {start})

all_simple_paths(ts, E, start, end) == PathsFrom(ts, E, start, end, {start})

PathWeight(ts, p) == SeqSum([k \in DOMAIN p |-> Weight(ts, p[k])])

\* the nodes of G in insertion order, filtered
RECURSIVE NodesIn(_, _, _)
NodesIn(ts, i, S) ==
    IF i > Len(ts) THEN <<>>
    ELSE (IF ts[i].id \in S /\ \A j \in 1..(i - 1) : ts[j].id /= ts[i].id
          THEN <<ts[i].id>> ELSE <<>>) \o NodesIn(ts, i + 1, S)

RECURSIVE AllPaths(_, _, _, _, _, _)
AllPaths(ts, E, starts, ends, si, ei) ==
    IF si > Len(starts) THEN <<>>
    ELSE IF ei > Len(ends) THEN AllPaths(ts, E, starts, ends, si + 1, 1)
    ELSE all_simple_paths(ts, E, starts[si], ends[ei]) \o
         AllPaths(ts, E, starts, ends, si, ei + 1)

\* mutant of FirstMax: the first path found, whatever its weight
FirstMax_FirstFound(ts, paths) == paths[1]

\* max(paths, key=weight): the first path of maximal weight
FirstMax(ts, paths) ==
    paths[CHOOSE k \in DOMAIN paths :
            /\ \A j \in DOMAIN paths : PathWeight(ts, paths[j]) <= PathWeight(ts, paths[k])
            /\ \A j \in 1..(k - 1) : PathWeight(ts, paths[j]) < PathWeight(ts, paths[k])]

get_critical_path(ts, cs) ==
    IF ts = <<>> THEN <<>>
    ELSE LET E == EffectiveGraph(ts, cs)
             start_nodes == NodesIn(ts, 1, {n \in TaskIds(ts) : in_degree(E, n) = 0})
             end_nodes == NodesIn(ts, 1, {n \in TaskIds(ts) : out_degree(E, n) = 0})
             paths == AllPaths(ts, E, start_nodes, end_nodes, 1, 1)
         IN IF start_nodes = <<>> \/ end_nodes = <<>> THEN <<>>
            ELSE IF paths /= <<>> THEN FirstMax(ts, paths)
            ELSE <<>>

\* mutant of EarliestStart: the latest start of the predecessors, not their
\* latest finish
RECURSIVE EarliestStart_NoWeight(_, _, _)
EarliestStart_NoWeight(ts, E, n) ==
    SetMax({0} \cup {EarliestStart_NoWeight(ts, E, p) : p \in predecessors(E, n)})

\* _calculate_earliest_start_times: the forward pass in topological order;
\* {} when topological_sort raises NetworkXUnfeasible
RECURSIVE EarliestStart(_, _, _)
EarliestStart(ts, E, n) ==
    SetMax({0} \cup {EarliestStart(ts, E, p) + Weight(ts, p) : p \in predecessors(E, n)})

_calculate_earliest_start_times(ts, cs) ==
    LET E == EffectiveGraph(ts, cs)
    IN IF IsDAG(TaskIds(ts), E)
       THEN [n \in TaskIds(ts) |-> EarliestStart(ts, E, n)]
       ELSE <<>>

\* mutant of ProjectFinish: the latest start instead of the latest finish
ProjectFinish_NoDuration(ts, es) ==
    SetMax({0} \cup {es[t] : t \in TaskIds(ts) \cap DOMAIN es})

\* project_finish of _calculate_latest_start_times
ProjectFinish(ts, es) ==
    SetMax({0} \cup {es[t] + Weight(ts, t) : t \in TaskIds(ts) \cap DOMAIN es})

\* mutant of LatestStart: the latest of the successors' starts, not the earliest
RECURSIVE LatestStart_MaxSucc(_, _, _, _)
LatestStart_MaxSucc(ts, E, pf, n) ==
    IF successors(E, n) = {} THEN pf - Weight(ts, n)
    ELSE SetMax({LatestStart_MaxSucc(ts, E, pf, s) : s \in successors(E, n)}) - Weight(ts, n)

\* mutant of LatestStart: a task with successors starts when the earliest of
\* them must start, its own duration not subtracted
RECURSIVE LatestStart_NoDuration(_, _, _, _)
LatestStart_NoDuration(ts, E, pf, n) ==
    IF successors(E, n) = {} THEN pf - Weight(ts, n)
    ELSE SetMin({LatestStart_NoDuration(ts, E, pf, s) : s \in successors(E, n)})

\* the backward pass in reverse topological order
RECURSIVE LatestStart(_, _, _, _)
LatestStart(ts, E, pf, n) ==
    IF successors(E, n) = {} THEN pf - Weight(ts, n)
    ELSE SetMin({LatestStart(ts, E, pf, s) : s \in successors(E, n)}) - Weight(ts, n)

\* _calculate_latest_start_times, given self.earliest_start_times on entry:
\* the fields (es, ls) it leaves behind
_calculate_latest_start_times(ts, cs, es0) ==
    LET es == IF es0 = <<>> THEN _calculate_earliest_start_times(ts, cs) ELSE es0
        pf == ProjectFinish(ts, es)
        E == EffectiveGraph(ts, cs)
    IN [es |-> es,
        ls |-> IF IsDAG(TaskIds(ts), E)
               THEN [n \in TaskIds(ts) |-> LatestStart(ts, E, pf, n)]
               ELSE <<>>]

\* _calculate_slack_times, given the two cached fields on entry: the fields
\* it leaves behind and the slack dict it returns
_calculate_slack_times(ts, cs, es0, ls0) ==
    LET es1 == IF es0 = <<>> THEN _calculate_earliest_start_times(ts, cs) ELSE es0
        r == IF ls0 = <<>> THEN _calculate_latest_start_times(ts, cs, es1)
             ELSE [es |-> es1, ls |-> ls0]
    IN [es |-> r.es, ls |-> r.ls,
        slack |-> [t \in (TaskIds(ts) \cap DOMAIN r.es) \cap DOMAIN r.ls |->
                     r.ls[t] - r.es[t]]]

\* the near-critical rule of get_critical_path_details and of
\* _generate_path_visualization_data
NearCritical(ts, path_ids, slack) ==
    {t \in DOMAIN slack : t \notin Range(path_ids) /\ slack[t] <= 2 /\ t \in TaskIds(ts)}

\* get_critical_path_details: the fields left behind and the dict returned
get_critical_path_details(ts, cs, es0, ls0) ==
    LET path_ids == get_critical_path(ts, cs)
        total_duration == PathWeight(ts, path_ids)
        s == _calculate_slack_times(ts, cs, es0, ls0)
        \* duree_estimee > avg_duration * 1.5, avg = total / len(critical_tasks)
        bottlenecks == {t \in Range(path_ids) :
                          2 * Len(path_ids) * Weight(ts, t) > 3 * total_duration}
    IN [es |-> s.es, ls |-> s.ls,
        value |-> [path_ids |-> path_ids,
                   total_duration |-> total_duration,
                   slack_times |-> s.slack,
                   near_critical_tasks |-> NearCritical(ts, path_ids, s.slack),
                   visualization_data |->
                       [critical |-> Range(path_ids),
                        near |-> NearCritical(ts, path_ids, s.slack)],
                   bottlenecks |-> bottlenecks]]

\* dict.get(key, 0)
Get0(d, k) == IF k \in DOMAIN d THEN d[k] ELSE 0

\* get_advanced_analysis (the second definition, which replaces the first)
get_advanced_analysis(ts, cs, es0, ls0) ==
    LET s == _calculate_slack_times(ts, cs, es0, ls0)
        path_ids == get_critical_path(ts, cs)
        es == _calculate_earliest_start_times(ts, cs)
        r == _calculate_latest_start_times(ts, cs, es)
    IN [es |-> r.es, ls |-> r.ls,
        value |-> [task_schedule |->
                      [t \in TaskIds(ts) |->
                          [duration |-> Weight(ts, t),
                           earliest_start |-> Get0(es, t),
                           latest_start |-> Get0(r.ls, t),
                           slack |-> Get0(s.slack, t),
                           is_critical |-> t \in Range(path_ids)]],
                   critical_tasks |-> Len(path_ids),
                   total_tasks |-> Cardinality(TaskIds(ts))]]

\* ------------------------------------------------------------ RiskDetector
\* the risk levels "Élevé", "Moyen", "Faible", "Très faible", spelt in ASCII
Eleve == "Eleve"
Moyen == "Moyen"
Faible == "Faible"
TresFaible == "Tres faible"

\* the indices of 1..n that are in S, in list order
RECURSIVE SelectIdx(_, _)
SelectIdx(n, S) ==
    IF n = 0 THEN <<>>
    ELSE SelectIdx(n - 1, S) \o (IF n \in S THEN <<n>> ELSE <<>>)

\* "Élevé" if task.get('id') in self.critical_path_ids else "Moyen"
LevelOf(ts, i, cp) == IF ts[i].id \in cp THEN Eleve ELSE Moyen

\* mutant of HasNoResources: blank entries count as resources
HasNoResources_EmptyOnly(t) == t.ressources_requises = <<>>

\* not resources or all(not r for r in resources)
HasNoResources(t) ==
    \/ t.ressources_requises = <<>>
    \/ \A k \in DOMAIN t.ressources_requises : t.ressources_requises[k] = ""

\* _tasks_without_resources
_tasks_without_resources(ts, cp) ==
    LET idx == SelectIdx(Len(ts), {i \in DOMAIN ts : HasNoResources(ts[i])})
    IN [k \in DOMAIN idx |-> [id |-> ts[idx[k]].id, risk_level |-> LevelOf(ts, idx[k], cp)]]

\* _tasks_without_dependencies
_tasks_without_dependencies(ts) ==
    LET initial_task_ids == {ts[i].id : i \in {j \in DOMAIN ts : ts[j].predecesseurs = {}}}
        all_task_ids == TaskIds(ts)
        referenced_as_dependency ==
            UNION {ts[i].predecesseurs \cap all_task_ids : i \in DOMAIN ts}
        idx == SelectIdx(Len(ts), {i \in DOMAIN ts :
                                     /\ ts[i].id \notin initial_task_ids
                                     /\ ts[i].id \notin referenced_as_dependency})
    IN [k \in DOMAIN idx |-> [id |-> ts[idx[k]].id, risk_level |-> Faible]]

\* sum(task.get('duree_estimee', 0) for task in self.tasks)
TotalDuration(ts) == SeqSum([i \in DOMAIN ts |-> ts[i].duree_estimee])

\* _detect_bottlenecks: duration > 1.5 * (total_duration / len(tasks))
_detect_bottlenecks(ts, cp) ==
    IF ts = <<>> THEN <<>>
    ELSE LET idx == SelectIdx(Len(ts),
                      {i \in DOMAIN ts :
                          2 * Len(ts) * ts[i].duree_estimee > 3 * TotalDuration(ts)})
         IN [k \in DOMAIN idx |->
                [id |-> ts[idx[k]].id, risk_level |-> LevelOf(ts, idx[k], cp)]]

\* mutant of _detect_bottlenecks_error: the ratio is computed for every task,
\* before the comparison with the threshold
_detect_bottlenecks_error_DivideFirst(ts) ==
    IF ts /= <<>> /\ TotalDuration(ts) = 0 THEN "ZeroDivisionError" ELSE "none"

\* the exception _detect_bottlenecks raises, "none" when it returns:
\* duration / avg_duration is evaluated for the tasks over the threshold
_detect_bottlenecks_error(ts) ==
    IF ts = <<>> THEN "none"
    ELSE IF \E i \in DOMAIN ts :
               /\ 2 * Len(ts) * ts[i].duree_estimee > 3 * TotalDuration(ts)
               /\ TotalDuration(ts) = 0
         THEN "ZeroDivisionError"
         ELSE "none"

\* resource_tasks: for every non-empty resource name, the tasks (by index)
\* it was appended for, one entry per occurrence of the name
RECURSIVE Occurrences(_, _, _)
Occurrences(ts, r, i) ==
    IF i > Len(ts) THEN <<>>
    ELSE LET res == ts[i].ressources_requises
         IN [k \in 1..Cardinality({j \in DOMAIN res : res[j] = r}) |-> i] \o
            Occurrences(ts, r, i + 1)

ResourceNames(ts) ==
    UNION {Range(ts[i].ressources_requises) : i \in DOMAIN ts} \ {""}

resource_tasks(ts) == [r \in ResourceNames(ts) |-> Occurrences(ts, r, 1)]

\* _detect_overloaded_resources, keyed by resource name
OverloadThreshold == 3

_detect_overloaded_resources(ts, cp) ==
    LET rt == resource_tasks(ts)
        flagged == {r \in DOMAIN rt : Len(rt[r]) > OverloadThreshold}
    IN [r \in flagged |->
          LET critical_tasks == {k \in DOMAIN rt[r] : ts[rt[r][k]].id \in cp}
          IN [task_count |-> Len(rt[r]),
              critical_tasks |-> Cardinality(critical_tasks),
              risk_level |-> IF critical_tasks /= {} THEN Eleve ELSE Moyen]]

\* mutant of _calculate_risk_level: no level below "Faible"
_calculate_risk_level_NoZero(total_risks) ==
    IF total_risks <= 2 THEN Faible
    ELSE IF total_risks <= 5 THEN Moyen
    ELSE Eleve

\* mutant of _calculate_risk_level: six risks still give "Moyen"
_calculate_risk_level_MediumUpTo6(total_risks) ==
    IF total_risks = 0 THEN TresFaible
    ELSE IF total_risks <= 2 THEN Faible
    ELSE IF total_risks <= 6 THEN Moyen
    ELSE Eleve

\* _calculate_risk_level
_calculate_risk_level(total_risks) ==
    IF total_risks = 0 THEN TresFaible
    ELSE IF total_risks <= 2 THEN Faible
    ELSE IF total_risks <= 5 THEN Moyen
    ELSE Eleve

\* _detect_timeline_risks
_detect_timeline_risks(ts, cp) ==
    LET idx == SelectIdx(Len(ts),
                 {i \in DOMAIN ts :
                     /\ ts[i].duree_estimee /= 0
                     /\ \/ Cardinality(ts[i].predecesseurs) > 2
                        \/ Len(ts[i].ressources_requises) > 2
                     /\ ts[i].duree_estimee < 3})
    IN [k \in DOMAIN idx |-> [id |-> ts[idx[k]].id, risk_level |-> LevelOf(ts, idx[k], cp)]]

\* dependency_map of _detect_dependency_conflicts
dependency_map(ts) == [tid \in TaskIds(ts) |-> task_map(ts)[tid].predecesseurs]

\* the tasks reached from task_id through dependency entries, itself included
RECURSIVE ReachedFrom(_, _)
ReachedFrom(dm, S) ==
    LET more == S \cup UNION {dm[t] \cap DOMAIN dm : t \in S}
    IN IF more = S THEN S ELSE ReachedFrom(dm, more)

\* mutant of ChainLen: one visited set shared by all branches, so that every
\* task is expanded once
ChainLen_SharedVisited(dm, task_id, visited) ==
    LET reached == ReachedFrom(dm, {task_id})
        RECURSIVE Sum(_)
        Sum(S) == IF S = {} THEN 0
                  ELSE LET x == CHOOSE y \in S : TRUE
                       IN Cardinality(dm[x] \cap DOMAIN dm) + Sum(S \ {x})
    IN 1 + Sum(reached)

\* len(_get_dependency_chain(task_id, dependency_map, visited))
RECURSIVE ChainLen(_, _, _)
ChainLen(dm, task_id, visited) ==
    IF task_id \in visited THEN 1
    ELSE LET preds == IF task_id \in DOMAIN dm THEN dm[task_id] \cap DOMAIN dm ELSE {}
             sub == [p \in preds |-> ChainLen(dm, p, visited \cup {task_id})]
             RECURSIVE Sum(_)
             Sum(S) == IF S = {} THEN 0
                       ELSE LET x == CHOOSE y \in S : TRUE IN sub[x] + Sum(S \ {x})
         IN 1 + Sum(preds)

_get_dependency_chain_len(ts, task_id) == ChainLen(dependency_map(ts), task_id, {})

\* _detect_dependency_conflicts
ChainThreshold == 5

_detect_dependency_conflicts(ts, cp) ==
    LET idx == SelectIdx(Len(ts),
                 {i \in DOMAIN ts : _get_dependency_chain_len(ts, ts[i].id) > ChainThreshold})
    IN [k \in DOMAIN idx |->
          [task_id |-> ts[idx[k]].id, risk_level |-> LevelOf(ts, idx[k], cp)]]

\* _find_potential_parallel_tasks over a list of task indices: the greedy
\* grouping, keeping the groups of more than one task
RECURSIVE GreedyGroups(_, _)
GreedyGroups(ts, remaining) ==
    IF remaining = <<>> THEN <<>>
    ELSE LET t == Head(remaining)
             rest == Tail(remaining)
             Joins(o) == /\ ts[t].id \notin ts[o].predecesseurs
                         /\ ts[o].id \notin ts[t].predecesseurs
             joined == SelectSeq(rest, Joins)
             NotJoins(o) == ~Joins(o)
             left == SelectSeq(rest, NotJoins)
             group == <<t>> \o joined
         IN (IF Len(group) > 1 THEN <<group>> ELSE <<>>) \o GreedyGroups(ts, left)

_find_potential_parallel_tasks(ts, idxs) == GreedyGroups(ts, idxs)

\* _detect_resource_allocation_conflicts, keyed by resource name: the
\* conflicts (groups of task indices) reported for the resource
_detect_resource_allocation_conflicts(ts, cp) ==
    LET rt == resource_tasks(ts)
    IN [r \in {x \in DOMAIN rt : Len(rt[x]) > 1} |->
          LET groups == _find_potential_parallel_tasks(ts, rt[r])
          IN [g \in DOMAIN groups |->
                [conflicting_tasks |-> groups[g],
                 risk_level |-> IF \E k \in DOMAIN groups[g] : ts[groups[g][k]].id \in cp
                                THEN Eleve ELSE Moyen]]]

\* the number of entries of a dict of lists
RECURSIVE CountAll(_, _)
CountAll(d, S) ==
    IF S = {} THEN 0
    ELSE LET x == CHOOSE y \in S : TRUE IN Len(d[x]) + CountAll(d, S \ {x})

\* the levels of every reported risk, as a bag: level -> count
LevelCount(lists, conflicts, lvl) ==
    SeqSum([k \in DOMAIN lists |->
               Cardinality({j \in DOMAIN lists[k] : lists[k][j].risk_level = lvl})])
    + Cardinality({r \in DOMAIN conflicts.over : conflicts.over[r].risk_level = lvl})
    + LET rc == conflicts.res
          RECURSIVE Cnt(_)
          Cnt(S) == IF S = {} THEN 0
                    ELSE LET x == CHOOSE y \in S : TRUE
                         IN Cardinality({g \in DOMAIN rc[x] : rc[x][g].risk_level = lvl})
                            + Cnt(S \ {x})
      IN Cnt(DOMAIN rc)

\* the exception detect_risks raises, "none" when it returns: the only
\* operation of the detectors, the metrics and the chart data that can fail
\* on a list of task dicts is the division of _detect_bottlenecks (the
\* ratios of _calculate_risk_metrics are guarded by `if self.tasks`)
detect_risks_error(ts) == _detect_bottlenecks_error(ts)

\* the messages for the resources with more than 5 tasks, one each (in the
\* order of the overloaded list, which the model keeps as a set)
RECURSIVE SevereOverloads(_, _)
SevereOverloads(overloaded_resources, S) ==
    IF S = {} THEN <<>>
    ELSE LET r == CHOOSE x \in S : TRUE
         IN <<<<"reallocate", r, overloaded_resources[r].task_count>>>> \o
            SevereOverloads(overloaded_resources, S \ {r})

\* _generate_recommendations: every message as its template and the values
\* formatted into it.  The tasks of the model carry neither 'nom' nor 'name',
\* so the name of a single task without resources is ''.
_generate_recommendations(no_resources, no_dependencies, bottlenecks, overloaded_resources, timeline_risks, dependency_conflicts, resource_conflicts, cp) ==
    LET critical_bottlenecks == {k \in DOMAIN bottlenecks : bottlenecks[k].id \in cp}
        n_critical == Cardinality(critical_bottlenecks)
        n_over == Cardinality(DOMAIN overloaded_resources)
        severe_overloads == {r \in DOMAIN overloaded_resources :
                                overloaded_resources[r].task_count > 5}
    IN (IF no_resources = <<>> THEN <<>>
        ELSE IF Len(no_resources) > 1 THEN <<<<"assign_resources_to_tasks", Len(no_resources)>>>>
        ELSE <<<<"assign_resources_to_task", "">>>>)
       \o (IF no_dependencies = <<>> THEN <<>>
           ELSE <<<<"review_unreferenced", Len(no_dependencies)>>>>)
       \o (IF bottlenecks /= <<>> /\ n_critical > 0
           THEN <<<<"break_down_critical", n_critical>>>> ELSE <<>>)
       \o (IF bottlenecks /= <<>> /\ Len(bottlenecks) > n_critical
           THEN <<<<"review_non_critical", Len(bottlenecks) - n_critical>>>> ELSE <<>>)
       \o (IF n_over = 0 THEN <<>>
           ELSE <<<<"redistribute", n_over>>>> \o
                SevereOverloads(overloaded_resources, severe_overloads))
       \o (IF \/ no_resources /= <<>>
              \/ no_dependencies /= <<>>
              \/ bottlenecks /= <<>>
              \/ n_over > 0
           THEN <<<<"risk_review_meeting">>>> ELSE <<>>)

\* detect_risks
detect_risks(ts, cp) ==
    LET no_resources == _tasks_without_resources(ts, cp)
        no_dependencies == _tasks_without_dependencies(ts)
        bottlenecks == _detect_bottlenecks(ts, cp)
        overloaded_resources == _detect_overloaded_resources(ts, cp)
        timeline_risks == _detect_timeline_risks(ts, cp)
        dependency_conflicts == _detect_dependency_conflicts(ts, cp)
        resource_conflicts == _detect_resource_allocation_conflicts(ts, cp)
        n_over == Cardinality(DOMAIN overloaded_resources)
        n_conf == CountAll(resource_conflicts, DOMAIN resource_conflicts)
        total_risks == Len(no_resources) + Len(no_dependencies) + Len(bottlenecks)
                       + n_over + Len(timeline_risks) + Len(dependency_conflicts)
                       + n_conf
        lists == <<no_resources, no_dependencies, bottlenecks, timeline_risks,
                   dependency_conflicts>>
        both == [over |-> overloaded_resources, res |-> resource_conflicts]
        high == LevelCount(lists, both, Eleve)
        medium == LevelCount(lists, both, Moyen)
        low == total_risks - high - medium
    IN [total_risks |-> total_risks,
        risk_level |-> _calculate_risk_level(total_risks),
        risk_scores |->
            [resource_risks |-> Len(no_resources) * 10 + n_over * 15,
             dependency_risks |-> Len(no_dependencies) * 5 + Len(dependency_conflicts) * 20,
             timeline_risks |-> Len(bottlenecks) * 15 + Len(timeline_risks) * 10,
             resource_conflicts |-> n_conf * 20],
        risk_metrics |->
            [risk_levels |-> [high |-> high, medium |-> medium, low |-> low],
             total_risk_score |-> high * 3 + medium * 2 + low],
        risks |->
            [no_resources |-> no_resources,
             no_dependencies |-> no_dependencies,
             bottlenecks |-> bottlenecks,
             overloaded_resources |-> overloaded_resources,
             timeline_risks |-> timeline_risks,
             dependency_conflicts |-> dependency_conflicts,
             resource_conflicts |-> resource_conflicts],
        recommendations |->
            _generate_recommendations(no_resources, no_dependencies, bottlenecks,
                                      overloaded_resources, timeline_risks,
                                      dependency_conflicts, resource_conflicts, cp)]

\* ------------------------------------------------------------ task lists
RECURSIVE SubsetsUpTo(_, _)
SubsetsUpTo(S, k) ==
    IF k = 0 \/ S = {} THEN {{}}
    ELSE LET x == CHOOSE y \in S : TRUE
         IN SubsetsUpTo(S \ {x}, k) \cup
            {T \cup {x} : T \in SubsetsUpTo(S \ {x}, k - 1)}

\* an id that names no task
DanglingId == MaxTasks + 100

\* the task list of n tasks with ids 1..n, durations d, dependency entries
\* deps (pairs <<predecessor, task>>) and resource lists res
MkTasks(n, d, deps, res) ==
    [i \in 1..n |-> [id |-> i, duree_estimee |-> d[i],
                     predecesseurs |-> {e[1] : e \in {x \in deps : x[2] = i}},
                     ressources_requises |-> res[i]]]

NoRes(n) == [i \in 1..n |-> <<>>]

\* every task list of up to MaxTasks tasks with up to MaxEdges dependency
\* entries among the tasks (self-references included)
GenericTaskLists ==
    UNION {{MkTasks(n, d, deps, NoRes(n)) :
              d \in [1..n -> 0..MaxDur],
              deps \in SubsetsUpTo((1..n) \X (1..n), MaxEdges)} :
           n \in 0..MaxTasks}

\* dependency structures beyond the exhaustive family, each taken with every
\* assignment of durations: a chain, a three-task cycle, two cycles sharing
\* an edge, two cycles sharing a task, a diamond, a fork with an isolated
\* task, dangling references, a self-reference beside a cycle
Scenarios ==
    { [n |-> 3, deps |-> {<<1, 2>>, <<2, 3>>}],
      [n |-> 3, deps |-> {<<1, 2>>, <<2, 3>>, <<3, 1>>}],
      [n |-> 3, deps |-> {<<1, 2>>, <<2, 3>>, <<3, 1>>, <<2, 1>>}],
      [n |-> 3, deps |-> {<<1, 2>>, <<2, 1>>, <<2, 3>>, <<3, 2>>}],
      [n |-> 4, deps |-> {<<1, 2>>, <<1, 3>>, <<2, 4>>, <<3, 4>>}],
      [n |-> 3, deps |-> {<<1, 2>>, <<1, 3>>}],
      [n |-> 3, deps |-> {<<2, 3>>}],
      [n |-> 2, deps |-> {<<DanglingId, 1>>, <<1, 2>>, <<DanglingId, 2>>}],
      [n |-> 3, deps |-> {<<1, 2>>, <<2, 1>>, <<3, 3>>}] }

ScenarioTaskLists ==
    UNION {{MkTasks(sc.n, d, sc.deps, NoRes(sc.n)) : d \in [1..sc.n -> 0..MaxDur]} :
           sc \in Scenarios}

\* the worked example: tasks 1 (2), 2 (5, after 1), 3 (1, after 1), 4 (3, after 2, 3)
ExampleTasks ==
    MkTasks(4, <<2, 5, 1, 3>>, {<<1, 2>>, <<1, 3>>, <<2, 4>>, <<3, 4>>}, NoRes(4))

TaskLists == GenericTaskLists \cup ScenarioTaskLists \cup {ExampleTasks}

\* the resource lists of up to MaxRes entries over a name and the blank name
RECURSIVE SeqsUpTo(_, _)
SeqsUpTo(S, k) ==
    IF k = 0 THEN {<<>>}
    ELSE SeqsUpTo(S, k - 1) \cup
         {Append(q, x) : q \in {r \in SeqsUpTo(S, k - 1) : Len(r) = k - 1}, x \in S}

ResourceLists == SeqsUpTo({"", "Alice"}, MaxRes)

\* the task lists the risk detectors are explored on: every assignment of
\* resource lists to up to MaxTasks tasks, independent or chained
GenericRiskTaskLists ==
    UNION {{MkTasks(n, [i \in 1..n |-> 1], deps, res) :
              res \in [1..n -> ResourceLists],
              deps \in {{}, {<<i, i + 1>> : i \in 1..(n - 1)}}} :
           n \in 0..MaxTasks}

\* one resource assigned once to each of OverloadThreshold and of
\* OverloadThreshold + 1 tasks, independent or with one dependency
OverloadTaskLists ==
    {MkTasks(n, [i \in 1..n |-> 1], deps, [i \in 1..n |-> <<"Alice">>]) :
        n \in {OverloadThreshold, OverloadThreshold + 1},
        deps \in {{}, {<<1, 2>>}, {<<2, 3>>}}}

\* a task list on which six of the seven detectors report: two tasks that
\* list one resource twice, two tasks without resources, one of them long
\* and depending on the other
HighRiskTasks ==
    MkTasks(4, <<1, 1, 1, 5>>, {<<3, 4>>},
            <<<<"Alice", "Alice">>, <<"Alice", "Alice">>, <<>>, <<>>>>)

\* four tasks, the last of duration 0 to 3 with three dependencies or three
\* resources or both or neither
TimelineTaskLists ==
    {MkTasks(4, <<1, 1, 1, d>>, deps, <<<<"Alice">>, <<"Bob">>, <<"Carol">>, res>>) :
        d \in 0..3,
        deps \in {{}, {<<1, 4>>, <<2, 4>>, <<3, 4>>}},
        res \in {<<"Dave">>, <<"Alice", "Bob", "Carol">>}}

RiskTaskLists ==
    GenericRiskTaskLists \cup OverloadTaskLists \cup {HighRiskTasks} \cup TimelineTaskLists

\* ------------------------------------------------------ raw JSON values
\* A Python value is a pair <<type name, payload>>: None, an int, a str, a
\* list (sequence of values) or a dict (function from key strings to values).
None == <<"NoneType", 0>>
IntV(n) == <<"int", n>>
StrV(s) == <<"str", s>>
ListV(q) == <<"list", q>>
DictV(f) == <<"dict", f>>

isinstance(v, t) == v[1] = t

\* bool(v): None, 0, "", [] and {} are false
Truthy(v) ==
    CASE isinstance(v, "NoneType") -> FALSE
      [] isinstance(v, "int") -> v[2] /= 0
      [] isinstance(v, "str") -> v[2] /= ""
      [] isinstance(v, "list") -> Len(v[2]) > 0
      [] isinstance(v, "dict") -> DOMAIN v[2] /= {}

\* a or b
Or(a, b) == IF Truthy(a) THEN a ELSE b

\* str(n) for an int
Digits == <<"0", "1", "2", "3", "4", "5", "6", "7", "8", "9">>

RECURSIVE NatToStr(_)
NatToStr(n) ==
    IF n < 10 THEN Digits[n + 1]
    ELSE NatToStr(n \div 10) \o Digits[(n % 10) + 1]

\* str(v) and f"{v}" for None, an int or a str
str(v) ==
    CASE isinstance(v, "str") -> v[2]
      [] isinstance(v, "int") ->
            IF v[2] < 0 THEN "-" \o NatToStr(0 - v[2]) ELSE NatToStr(v[2])
      [] isinstance(v, "NoneType") -> "None"

\* s.lower() on the status texts the inputs carry
lower ==
    [s \in {"Done", " LATE ", "bogus", "cancelled", "en_cours", "0",
            "completed", "in_progress", "not_started", "delayed",
            "non_commencee"} |->
        CASE s = "Done" -> "done"
          [] s = " LATE " -> " late "
          [] OTHER -> s]

\* s.strip() on the lowered status texts and on the pieces of a split
strip ==
    [s \in {"done", " late ", "bogus", "cancelled", "en_cours", "0",
            "completed", "in_progress", "not_started", "delayed",
            "non_commencee", "A", " B"} |->
        CASE s = " late " -> "late"
          [] s = " B" -> "B"
          [] OTHER -> s]

\* s.split(',') on the dependency texts the inputs carry
split_comma ==
    [s \in {"A, B", "A"} |->
        CASE s = "A, B" -> <<"A", " B">>
          [] OTHER -> <<s>>]

\* json.loads(text) on the JSON texts the inputs carry; JSONDecodeError for
\* a text that is not JSON
JSONDecodeError == <<"JSONDecodeError", 0>>

json_loads ==
    [s \in {"", "{bad", "null", "0", "5", "[]", "[1, 2]", "{}", "\"abc\"",
            "{\"tasks\": []}", "{\"foo\": 1}"} |->
        CASE s = "null" -> None
          [] s = "0" -> IntV(0)
          [] s = "5" -> IntV(5)
          [] s = "[]" -> ListV(<<>>)
          [] s = "[1, 2]" -> ListV(<<IntV(1), IntV(2)>>)
          [] s = "{}" -> DictV(<<>>)
          [] s = "\"abc\"" -> StrV("abc")
          [] s = "{\"tasks\": []}" -> DictV([k \in {"tasks"} |-> ListV(<<>>)])
          [] s = "{\"foo\": 1}" -> DictV([k \in {"foo"} |-> IntV(1)])
          [] OTHER -> JSONDecodeError]

\* float(v): the exception it raises, "none" when it returns
float_error(v) ==
    CASE isinstance(v, "int") -> "none"
      [] isinstance(v, "str") ->
            IF v[2] \in {"0", "1", "2", "3", "5", "7"} THEN "none" ELSE "ValueError"
      [] OTHER -> "TypeError"

\* key in obj: membership in a dict's keys, in a list's elements, substring
\* of a str; TypeError on an int or None
key_in(key, obj) ==
    CASE isinstance(obj, "dict") -> key \in DOMAIN obj[2]
      [] isinstance(obj, "list") -> \E i \in DOMAIN obj[2] : obj[2][i] = StrV(key)
      [] isinstance(obj, "str") -> <<key, obj[2]>> \in {<<"tasks", "{\"tasks\": []}">>}

\* the first key of the list that is in the dict, 0 when there is none
FirstKey(d, possible_keys) ==
    LET hits == {i \in DOMAIN possible_keys : possible_keys[i] \in DOMAIN d}
    IN IF hits = {} THEN 0 ELSE CHOOSE i \in hits : \A j \in hits : i <= j

\* ------------------------------------------------------- AIJsonAnalyzer
\* _find_value_by_keys(obj, possible_keys) on a dict
_find_value_by_keys(obj, possible_keys) ==
    LET i == FirstKey(obj[2], possible_keys)
    IN IF i = 0 THEN None ELSE obj[2][possible_keys[i]]

id_keys == <<"id", "task_id", "identifiant", "ID", "key", "uid">>
name_keys == <<"name", "nom", "title", "titre", "task_name">>
desc_keys == <<"description", "desc", "details", "notes">>
duration_keys == <<"duration", "duree", "duree_estimee", "days", "effort", "length">>
unit_keys == <<"unit", "duration_unit", "unite", "unite_duree", "time_unit">>
pred_keys == <<"predecessors", "dependencies", "depends_on", "predecesseurs", "dependances">>
resource_keys == <<"resources", "resource", "assignee", "assigned_to", "ressources", "responsible">>
status_keys == <<"status", "state", "statut", "etat", "task_status">>

\* AIJsonAnalyzer._normalize_status (the accented spellings of the lists are
\* left out: the inputs carry ASCII text only)
_normalize_status(status) ==
    IF ~Truthy(status) THEN "not_started"
    ELSE LET status_str == strip[lower[str(status)]]
         IN CASE status_str \in {"completed", "complete", "done", "finished",
                                 "termine", "terminee"} -> "completed"
              [] status_str \in {"in progress", "in_progress", "ongoing", "started",
                                 "en cours", "en_cours"} -> "in_progress"
              [] status_str \in {"not started", "not_started", "to do", "to-do",
                                 "todo", "planned", "non_commencee"} -> "not_started"
              [] status_str \in {"delayed", "late", "overdue", "behind",
                                 "en retard", "en_retard"} -> "delayed"
              [] status_str \in {"cancelled", "canceled", "dropped", "annule"} -> "cancelled"
              [] OTHER -> "not_started"

\* the dependency formats: a comma-separated str is split and stripped, a
\* list is kept, any other value is wrapped as [str(value)]
normalize_dependencies(preds) ==
    CASE isinstance(preds, "str") ->
            LET parts == split_comma[preds[2]]
            IN ListV([i \in DOMAIN parts |-> StrV(strip[parts[i]])])
      [] isinstance(preds, "list") -> preds
      [] OTHER -> ListV(<<StrV(str(preds))>>)

\* mutant of normalize_resources: the value is wrapped whatever its type
normalize_resources_WrapAlways(resources) == ListV(<<resources>>)

\* the resource formats: a str is wrapped, a list is kept, any other value
\* is wrapped as [str(value)]
normalize_resources(resources) ==
    CASE isinstance(resources, "str") -> ListV(<<resources>>)
      [] isinstance(resources, "list") -> resources
      [] OTHER -> ListV(<<StrV(str(resources))>>)

\* AIJsonAnalyzer._normalize_task on a dict
_normalize_task(task, index) ==
    LET found_id == _find_value_by_keys(task, id_keys)
        task_id == IF isinstance(found_id, "NoneType")
                   THEN StrV("task_" \o str(IntV(index + 1)))
                   ELSE found_id
    IN [id |-> StrV(str(task_id)),
        name |-> Or(_find_value_by_keys(task, name_keys), StrV("Task " \o str(task_id))),
        description |-> Or(_find_value_by_keys(task, desc_keys), StrV("")),
        duration |-> Or(_find_value_by_keys(task, duration_keys), IntV(1)),
        duration_unit |-> Or(_find_value_by_keys(task, unit_keys), StrV("days")),
        dependencies |->
            normalize_dependencies(Or(_find_value_by_keys(task, pred_keys), ListV(<<>>))),
        resources |->
            normalize_resources(Or(_find_value_by_keys(task, resource_keys), ListV(<<>>))),
        status |-> StrV(_normalize_status(
                      Or(_find_value_by_keys(task, status_keys), StrV("not_started")))),
        original |-> task]

\* the loop of _detect_tasks: every dict of the list normalized with its
\* index in the list, every other element skipped
RECURSIVE NormalizeList(_, _)
NormalizeList(task_list, n) ==
    IF n = 0 THEN <<>>
    ELSE NormalizeList(task_list, n - 1) \o
         (IF isinstance(task_list[n], "dict")
          THEN <<_normalize_task(task_list[n], n - 1)>>
          ELSE <<>>)

task_list_keys == <<"tasks", "taches", "activities", "activites", "items", "work_items">>

\* the deeper search of _detect_tasks: a list under some key whose first
\* item is a dict with at least two of an id, a name and a duration key
LooksLikeTasks(value) ==
    /\ isinstance(value, "list")
    /\ Len(value[2]) > 0
    /\ isinstance(value[2][1], "dict")
    /\ LET sample_item == value[2][1][2]
           ind(keys) == IF keys \cap DOMAIN sample_item /= {} THEN 1 ELSE 0
       IN ind({"id", "task_id", "identifiant"}) + ind({"name", "nom", "title", "titre"})
            + ind({"duration", "duree", "length", "days"}) >= 2

\* the task lists _detect_tasks may pick on a dict: the first task-list key
\* holding a list, else a task-like list under any key (dict order decides
\* between several; the inputs carry at most one), else none
DetectedTaskLists(raw) ==
    LET direct == {i \in DOMAIN task_list_keys :
                     /\ task_list_keys[i] \in DOMAIN raw[2]
                     /\ isinstance(raw[2][task_list_keys[i]], "list")}
    IN IF direct /= {}
       THEN {raw[2][task_list_keys[CHOOSE i \in direct : \A j \in direct : i <= j]]}
       ELSE LET deep == {k \in DOMAIN raw[2] : LooksLikeTasks(raw[2][k])}
            IN IF deep = {} THEN {None} ELSE {raw[2][k] : k \in deep}

\* AIJsonAnalyzer._detect_tasks on a dict, given the list it picked
_detect_tasks(task_list) ==
    IF ~Truthy(task_list) THEN <<>>
    ELSE NormalizeList(task_list[2], Len(task_list[2]))

\* AIJsonAnalyzer._detect_project_metadata on a dict without date keys
_detect_project_metadata(raw) ==
    [project_name |->
        Or(_find_value_by_keys(raw, <<"project_name", "name", "nom_projet", "nom",
                                      "title", "titre", "project">>),
           StrV("Untitled Project")),
     description |->
        Or(_find_value_by_keys(raw, <<"description", "desc", "project_description",
                                      "details">>), StrV("")),
     manager |->
        Or(_find_value_by_keys(raw, <<"manager", "project_manager", "owner",
                                      "responsable", "chef_projet">>), StrV("Unknown"))]

\* calculate_critical_path: the graph over the tasks with a true id
GraphNodes(nt) == {nt[i].id[2] : i \in {j \in DOMAIN nt : Truthy(nt[j].id)}}

GraphEdges(nt) ==
    {e \in GraphNodes(nt) \X GraphNodes(nt) :
        \E i \in DOMAIN nt :
            /\ nt[i].id = StrV(e[2])
            /\ \E k \in DOMAIN nt[i].dependencies[2] :
                  nt[i].dependencies[2][k] = StrV(e[1])}

\* list(nx.simple_cycles(G)) of that graph
task_cycles(nt) == CycleLists(CycleClasses(GraphNodes(nt), GraphEdges(nt)))

\* for cycle in cycles: if len(cycle) >= 2: G.remove_edge(cycle[0], cycle[1]);
\* remove_edge raises NetworkXError on an edge already removed, which ends
\* the loop in the bare except
RECURSIVE RemoveFirstEdges(_, _)
RemoveFirstEdges(E, cs) ==
    IF cs = <<>> THEN [edges |-> E, raised |-> FALSE]
    ELSE IF Len(Head(cs)) < 2 THEN RemoveFirstEdges(E, Tail(cs))
    ELSE IF <<Head(cs)[1], Head(cs)[2]>> \notin E THEN [edges |-> E, raised |-> TRUE]
    ELSE RemoveFirstEdges(E \ {<<Head(cs)[1], Head(cs)[2]>>}, Tail(cs))

\* u < v on the id strings the inputs can produce (code point order)
IdOrder == <<"0", "7", "A", "B", "task_1", "task_2", "task_3", "task_4">>

StrLess(u, v) ==
    \E i, j \in DOMAIN IdOrder : i < j /\ IdOrder[i] = u /\ IdOrder[j] = v

\* the graph calculate_critical_path goes on with after its cycle check: the
\* first edge of every listed cycle removed; when remove_edge raised and the
\* graph is still cyclic, a new graph of the edges u < v, whose nodes carry
\* no 'weight'
break_cycles(nt, cs) ==
    LET removed == RemoveFirstEdges(GraphEdges(nt), cs)
        rebuilt == removed.raised /\ ~IsDAG(GraphNodes(nt), removed.edges)
        kept == {e \in removed.edges : StrLess(e[1], e[2])}
    IN [nodes |-> IF rebuilt THEN {e[1] : e \in kept} \cup {e[2] : e \in kept}
                  ELSE GraphNodes(nt),
        edges |-> IF rebuilt THEN kept ELSE removed.edges,
        weighted |-> ~rebuilt]

\* the exception calculate_critical_path raises, "none" when it returns:
\* float(duration) on the first task whose duration is no number; an
\* unhashable dependency looked up in task_map; and, when the except branch
\* rebuilds a cyclic graph from its edges u < v, the rebuilt nodes carry no
\* 'weight' for the path sums
calculate_critical_path_error(nt, cs) ==
    LET with_id == {i \in DOMAIN nt : Truthy(nt[i].id)}
        bad == {i \in with_id : float_error(nt[i].duration) /= "none"}
        unhashable == \E i \in with_id : \E k \in DOMAIN nt[i].dependencies[2] :
                         LET dep == nt[i].dependencies[2][k]
                         IN Truthy(dep) /\ dep[1] \in {"list", "dict"}
        removed == RemoveFirstEdges(GraphEdges(nt), cs)
    IN IF bad /= {}
       THEN float_error(nt[CHOOSE i \in bad : \A j \in bad : i <= j].duration)
       ELSE IF unhashable THEN "TypeError"
       ELSE IF /\ removed.raised
               /\ ~IsDAG(GraphNodes(nt), removed.edges)
               /\ \E e \in removed.edges : StrLess(e[1], e[2])
       THEN "KeyError"
       ELSE "none"

\* what a constructor leaves: the exception it raised ("none" when the
\* object was built) and the object's data
Raised(e) == [error |-> e, constructed |-> FALSE, tasks |-> <<>>, metadata |-> <<>>]

\* AIJsonAnalyzer._analyze: metadata, tasks, critical path.  On a decoded
\* value that is no dict, `key in raw_data` raises TypeError for an int and
\* raw_data.items() raises AttributeError for a list or a str.
_analyze(raw, task_list, cs) ==
    CASE isinstance(raw, "int") -> Raised("TypeError")
      [] isinstance(raw, "list") ->
            IF \E i \in DOMAIN task_list_keys : key_in(task_list_keys[i], raw)
            THEN Raised("TypeError") ELSE Raised("AttributeError")
      [] isinstance(raw, "str") ->
            IF \E i \in DOMAIN task_list_keys : key_in(task_list_keys[i], raw)
            THEN Raised("TypeError") ELSE Raised("AttributeError")
      [] isinstance(raw, "dict") ->
            LET nt == _detect_tasks(task_list)
                e == IF nt = <<>> THEN "none" ELSE calculate_critical_path_error(nt, cs)
            IN IF e /= "none" THEN Raised(e)
               ELSE [error |-> "none", constructed |-> TRUE, tasks |-> nt,
                     metadata |-> _detect_project_metadata(raw)]

\* the value AIJsonAnalyzer.__init__ leaves in self.raw_data before it
\* validates: a dict as given, a str decoded, anything else None
LoadedData(json_data) ==
    CASE isinstance(json_data, "dict") -> json_data
      [] isinstance(json_data, "str") -> json_loads[json_data[2]]
      [] OTHER -> None

\* AIJsonAnalyzer(json_data)
AIJsonAnalyzer(json_data, task_list, cs) ==
    LET loaded == LoadedData(json_data)
    IN IF isinstance(loaded, "JSONDecodeError") THEN Raised("ValueError")
       ELSE IF ~Truthy(loaded) THEN Raised("ValueError")
       ELSE _analyze(loaded, task_list, cs)

\* the nondeterminism of one construction: the task list _detect_tasks picks
\* and the cycle list networkx returns
TaskListChoices(json_data) ==
    LET loaded == LoadedData(json_data)
    IN IF isinstance(loaded, "dict") THEN DetectedTaskLists(loaded) ELSE {None}

CycleChoices(task_list) == task_cycles(_detect_tasks(task_list))

\* -------------------------------------------------------- ProjectParser
\* ProjectParser._get_first_match: the key itself, None when there is none
_get_first_match(obj, possible_keys) ==
    LET i == FirstKey(obj[2], possible_keys)
    IN IF i = 0 THEN None ELSE StrV(possible_keys[i])

\* task.get(key, default), key being a str or None
dict_get(obj, key, default) ==
    IF isinstance(key, "str") /\ key[2] \in DOMAIN obj[2] THEN obj[2][key[2]] ELSE default

\* ProjectParser._normalize_status
ProjectParser_normalize_status(status) ==
    LET status_lower == lower[str(status)]
    IN CASE status_lower \in {"terminee", "done", "complete", "completed",
                              "finished"} -> "terminee"
         [] status_lower \in {"en cours", "en_cours", "in progress", "ongoing",
                              "in_progress"} -> "en_cours"
         [] status_lower \in {"non_commencee", "not started", "todo", "to_do",
                              "to do", "planned"} -> "non_commencee"
         [] status_lower \in {"en retard", "en_retard", "late", "delayed",
                              "overdue"} -> "en_retard"
         [] OTHER -> "non_commencee"

\* the body of the loop of get_tasks on a dict: the normalized task, None
\* for a task without id
ProjectParser_normalize_task(task) ==
    LET task_id == dict_get(task, StrV("id"),
                       dict_get(task, StrV("identifiant"),
                           dict_get(task, StrV("task_id"), None)))
        name_key == _get_first_match(task, <<"nom", "name", "titre", "title">>)
        desc_key == _get_first_match(task, <<"description", "desc", "detail", "details">>)
        duration_key == _get_first_match(task, <<"duree_estimee", "duree", "duration",
                                                  "estimated_duration">>)
        duration_unit_key == _get_first_match(task, <<"unite_duree", "duration_unit", "unite">>)
        pred_key == _get_first_match(task, <<"predecesseurs", "predecessors", "dependances",
                                              "dependencies">>)
        resources_key == _get_first_match(task, <<"ressources_requises", "resources",
                                                   "ressources">>)
        status_key == _get_first_match(task, <<"statut", "status", "etat">>)
    IN IF isinstance(task_id, "NoneType") THEN None
       ELSE DictV([id |-> task_id,
                   nom |-> dict_get(task, name_key, StrV("Task " \o str(task_id))),
                   description |-> dict_get(task, desc_key, StrV("")),
                   duree_estimee |-> dict_get(task, duration_key, IntV(1)),
                   unite_duree |-> dict_get(task, duration_unit_key, StrV("jours")),
                   predecesseurs |-> dict_get(task, pred_key, ListV(<<>>)),
                   ressources_requises |-> dict_get(task, resources_key, ListV(<<>>)),
                   statut |-> StrV(ProjectParser_normalize_status(
                                 dict_get(task, status_key, StrV("non_commencee"))))])

\* for task in raw_tasks: tasks without id are skipped
RECURSIVE ProjectParserLoop(_, _)
ProjectParserLoop(raw_tasks, n) ==
    IF n = 0 THEN <<>>
    ELSE LET t == ProjectParser_normalize_task(raw_tasks[n])
         IN ProjectParserLoop(raw_tasks, n - 1) \o
            (IF isinstance(t, "NoneType") THEN <<>> ELSE <<t[2]>>)

\* ProjectParser.get_tasks on the data the constructor accepted.  `key in
\* data` raises TypeError on an int, data[key] raises TypeError on a str or
\* a list, iterating an int or None raises TypeError, and task.get raises
\* AttributeError on the first element that is no dict.
get_tasks(data) ==
    IF isinstance(data, "int") THEN Raised("TypeError")
    ELSE LET keys == <<"taches", "tasks", "activites">>
             hits == {i \in DOMAIN keys : key_in(keys[i], data)}
         IN IF hits = {}
            THEN [error |-> "none", constructed |-> TRUE, tasks |-> <<>>, metadata |-> <<>>]
            ELSE IF ~isinstance(data, "dict") THEN Raised("TypeError") ELSE
            LET raw_tasks == data[2][keys[CHOOSE i \in hits : \A j \in hits : i <= j]]
            IN CASE raw_tasks[1] \in {"int", "NoneType"} -> Raised("TypeError")
                 [] raw_tasks[1] \in {"str", "dict"} ->
                       IF Truthy(raw_tasks) THEN Raised("AttributeError")
                       ELSE [error |-> "none", constructed |-> TRUE, tasks |-> <<>>,
                             metadata |-> <<>>]
                 [] isinstance(raw_tasks, "list") ->
                       IF \E i \in DOMAIN raw_tasks[2] : ~isinstance(raw_tasks[2][i], "dict")
                       THEN Raised("AttributeError")
                       ELSE [error |-> "none", constructed |-> TRUE,
                             tasks |-> ProjectParserLoop(raw_tasks[2], Len(raw_tasks[2])),
                             metadata |-> <<>>]

\* ProjectParser(json_data) followed by get_tasks(), as upload_project calls
\* them: the constructor raises ValueError on a false value and keeps any
\* other value as self.data
ProjectParser(json_data) ==
    IF ~Truthy(json_data) THEN Raised("ValueError")
    ELSE LET r == get_tasks(json_data)
         IN [r EXCEPT !.constructed = TRUE]

\* ------------------------------------------------------------ raw inputs
\* the longest raw task list and the most keys its task objects hold in all
MaxRawTasks == 2
RawKeyBudget == 2

\* the entries a raw task object may hold: a key and a value under it
Entries ==
    << <<"id", None>>, <<"id", StrV("")>>, <<"id", StrV("A")>>,
       <<"id", StrV("task_2")>>, <<"id", IntV(7)>>,
       <<"task_id", StrV("B")>>,
       <<"name", StrV("Build")>>, <<"name", StrV("")>>,
       <<"nom", StrV("Plan")>>,
       <<"duration", IntV(0)>>, <<"duration", StrV("abc")>>, <<"duration", StrV("2")>>,
       <<"duration", IntV(-1)>>,
       <<"unit", StrV("hours")>>,
       <<"dependencies", StrV("A, B")>>, <<"dependencies", ListV(<<StrV("A")>>)>>,
       <<"dependencies", IntV(7)>>, <<"dependencies", ListV(<<IntV(7)>>)>>,
       <<"resources", StrV("Alice")>>, <<"resources", ListV(<<StrV("Alice"), StrV("")>>)>>,
       <<"resources", IntV(0)>>,
       <<"status", StrV("Done")>>, <<"status", StrV(" LATE ")>>,
       <<"status", StrV("bogus")>>, <<"status", IntV(0)>>,
       <<"statut", StrV("en_cours")>>,
       <<"foo", IntV(1)>> >>

\* the selections of n entries with distinct keys: one raw task object each
TaskSelections(n) ==
    {X \in SubsetsUpTo(DOMAIN Entries, n) :
        /\ Cardinality(X) = n
        /\ \A i, j \in X : i /= j => Entries[i][1] /= Entries[j][1]}

\* the lists of len selections holding at most budget entries in all
RECURSIVE SelectionLists(_, _)
SelectionLists(len, budget) ==
    IF len = 0 THEN {<<>>}
    ELSE UNION {{<<X>> \o rest : X \in TaskSelections(n),
                                rest \in SelectionLists(len - 1, budget - n)} :
                n \in 0..budget}

\* the raw task object of a selection
RawTask(X) ==
    DictV([k \in {Entries[i][1] : i \in X} |->
              Entries[CHOOSE i \in X : Entries[i][1] = k][2]])

\* a project object holding one value under one key
Project(key, value) == DictV(key :> value)

\* the project object holding the raw task list of a selection list
RawProject(sel) == Project("tasks", ListV([i \in DOMAIN sel |-> RawTask(sel[i])]))

\* the other values handed to the parsers: project objects with the task
\* list under another key, with no task list, with an element or a task list
\* that is no object; and values that are no object, given directly or as
\* JSON text
CyclicProject ==
    Project("tasks",
        ListV(<<DictV([id |-> StrV("7"), dependencies |-> ListV(<<StrV("A"), StrV("B")>>)]),
                DictV([id |-> StrV("A"), dependencies |-> ListV(<<StrV("7"), StrV("B")>>)]),
                DictV([id |-> StrV("B"), dependencies |-> ListV(<<StrV("A")>>)])>>))

OtherInputs ==
    {Project(k, ListV(<<DictV([id |-> StrV("A"), nom |-> StrV("Plan")])>>)) :
            k \in {"taches", "items", "data"}}
    \cup {Project("data", ListV(<<DictV([id |-> StrV("A")])>>)),
          Project("tasks", ListV(<<IntV(3), DictV([nom |-> StrV("Plan")])>>)),
          Project("tasks", IntV(5)),
          Project("foo", IntV(1)),
          DictV([name |-> StrV("P"), tasks |-> ListV(<<DictV(<<>>)>>)]),
          CyclicProject,
          None, DictV(<<>>), ListV(<<>>), ListV(<<IntV(1), IntV(2)>>), IntV(0), IntV(5)}
    \cup {StrV(text) : text \in DOMAIN json_loads}

NoResult == [op |-> "none", value |-> <<>>]

Init ==
    /\ tasks \in TaskLists
    /\ cycles \in simple_cycles(tasks)
    /\ earliest_start_times = <<>>
    /\ latest_start_times = <<>>
    /\ raw_data = None
    /\ result = NoResult
    /\ NoSessions

InitRisk ==
    /\ tasks \in RiskTaskLists
    /\ cycles \in simple_cycles(tasks)
    /\ earliest_start_times = <<>>
    /\ latest_start_times = <<>>
    /\ raw_data = None
    /\ result = NoResult
    /\ NoSessions

\* calculator.calculate_slack_times()
CalculateSlackTimes ==
    LET s == _calculate_slack_times(tasks, cycles, earliest_start_times, latest_start_times)
    IN /\ earliest_start_times' = s.es
       /\ latest_start_times' = s.ls
       /\ result' = [op |-> "calculate_slack_times", value |-> [slack_times |-> s.slack]]
       /\ UNCHANGED <<tasks, cycles, raw_data, app_vars>>

\* calculator.get_critical_path_details(), as upload_project calls it
GetCriticalPathDetails ==
    LET r == get_critical_path_details(tasks, cycles, earliest_start_times, latest_start_times)
    IN /\ earliest_start_times' = r.es
       /\ latest_start_times' = r.ls
       /\ result' = [op |-> "get_critical_path_details", value |-> r.value]
       /\ UNCHANGED <<tasks, cycles, raw_data, app_vars>>

\* calculator.get_advanced_analysis(), as get_advanced_schedule calls it
GetAdvancedAnalysis ==
    LET r == get_advanced_analysis(tasks, cycles, earliest_start_times, latest_start_times)
    IN /\ earliest_start_times' = r.es
       /\ latest_start_times' = r.ls
       /\ result' = [op |-> "get_advanced_analysis", value |-> r.value]
       /\ UNCHANGED <<tasks, cycles, raw_data, app_vars>>

\* RiskDetector(tasks, critical_path).detect_risks() with the critical path
\* cp: upload_project passes none, get_risk_charts the stored path_ids
DetectRisksWith(cp) ==
    /\ result' = [op |-> "detect_risks",
                  value |-> [critical_path_ids |-> cp,
                             error |-> detect_risks_error(tasks),
                             report |-> IF detect_risks_error(tasks) = "none"
                                        THEN detect_risks(tasks, cp) ELSE <<>>]]
    /\ UNCHANGED <<tasks, cycles, earliest_start_times, latest_start_times, raw_data, app_vars>>

DetectRisks ==
    \E cp \in {{}, Range(get_critical_path(tasks, cycles))} : DetectRisksWith(cp)

\* the analyzer called with any critical-path id set
AnalyzeRisks ==
    \E cp \in SUBSET TaskIds(tasks) : DetectRisksWith(cp)

Next ==
    \/ CalculateSlackTimes
    \/ GetCriticalPathDetails
    \/ GetAdvancedAnalysis
    \/ DetectRisks

Spec == Init /\ [][Next]_vars

NextRisk == AnalyzeRisks

SpecRisk == InitRisk /\ [][NextRisk]_vars

\* the parsers' state: the value handed in, and what the last construction
\* left
InitNorm ==
    /\ \/ \E len \in 0..MaxRawTasks :
             \E sel \in SelectionLists(len, RawKeyBudget) : raw_data = RawProject(sel)
       \/ raw_data \in OtherInputs
    /\ tasks = <<>>
    /\ cycles = <<>>
    /\ earliest_start_times = <<>>
    /\ latest_start_times = <<>>
    /\ result = NoResult
    /\ NoSessions

\* AIJsonAnalyzer(json_data=raw_data)
NewAIJsonAnalyzer ==
    /\ \E task_list \in TaskListChoices(raw_data) :
         \E cs \in CycleChoices(task_list) :
            /\ cycles' = cs
            /\ result' = [op |-> "AIJsonAnalyzer",
                          value |-> AIJsonAnalyzer(raw_data, task_list, cs)]
    /\ UNCHANGED <<tasks, earliest_start_times, latest_start_times, raw_data, app_vars>>

\* ProjectParser(json_data=raw_data).get_tasks()
NewProjectParser ==
    /\ result' = [op |-> "ProjectParser", value |-> ProjectParser(raw_data)]
    /\ UNCHANGED <<tasks, cycles, earliest_start_times, latest_start_times, raw_data, app_vars>>

\* the task list of an analyzer written back under the canonical field names
CanonicalKeys ==
    {"id", "name", "description", "duration", "duration_unit", "dependencies",
     "resources", "status"}

Canonical(nt) ==
    Project("tasks", ListV([i \in DOMAIN nt |-> DictV([k \in CanonicalKeys |-> nt[i][k]])]))

\* AIJsonAnalyzer(json_data=<the canonical form of the tasks of the analyzer
\* just built>)
Renormalize ==
    /\ result.op = "AIJsonAnalyzer"
    /\ result.value.constructed
    /\ LET again == Canonical(result.value.tasks)
       IN /\ raw_data' = again
          /\ \E task_list \in TaskListChoices(again) :
               \E cs \in CycleChoices(task_list) :
                  /\ cycles' = cs
                  /\ result' = [op |-> "Renormalize",
                                value |-> [first |-> result.value.tasks,
                                           again |-> AIJsonAnalyzer(again, task_list, cs)]]
    /\ UNCHANGED <<tasks, earliest_start_times, latest_start_times, app_vars>>

NextNorm ==
    \/ NewAIJsonAnalyzer
    \/ NewProjectParser
    \/ Renormalize

SpecNorm == InitNorm /\ [][NextNorm]_vars

\* ------------------------------------------------------------- properties
\* the dependency graph of the task list as built has no cycle at all
Acyclic(ts) == IsDAG(TaskIds(ts), _build_graph(ts))

\* every source-to-sink path of the dependency graph as built, stated
\* without reference to the enumeration order
SourceSinkPaths(ts) ==
    LET N == TaskIds(ts)
        E == _build_graph(ts)
    IN {p \in UNION {[1..k -> N] : k \in 1..Cardinality(N)} :
          /\ \A i, j \in DOMAIN p : i /= j => p[i] /= p[j]
          /\ \A i \in 1..(Len(p) - 1) : <<p[i], p[i + 1]>> \in E
          /\ in_degree(E, p[1]) = 0
          /\ out_degree(E, p[Len(p)]) = 0}

HasSlack == result.op \in {"calculate_slack_times", "get_critical_path_details"}

\* C1: on an acyclic task list the path reported by get_critical_path_details
\* is a source-to-sink path of maximal total duration and total_duration is
\* that total; the worked example gives path 1,2,4, duration 10 and slack 4
\* for task 3.
C1_CriticalPathIsLongest ==
    (result.op = "get_critical_path_details" /\ tasks /= <<>> /\ Acyclic(tasks)) =>
        /\ result.value.path_ids \in SourceSinkPaths(tasks)
        /\ \A p \in SourceSinkPaths(tasks) :
              PathWeight(tasks, p) <= PathWeight(tasks, result.value.path_ids)
        /\ result.value.total_duration = PathWeight(tasks, result.value.path_ids)
        /\ tasks = ExampleTasks =>
              /\ result.value.path_ids = <<1, 2, 4>>
              /\ result.value.total_duration = 10
              /\ result.value.slack_times[3] = 4

C1_Witness ==
    /\ result.op = "get_critical_path_details"
    /\ tasks = ExampleTasks
    /\ result.value.path_ids = <<1, 2, 4>>

\* C2: on an acyclic task list with non-negative durations the slack of every
\* task on the path returned by get_critical_path is 0 and the slack of every
\* other task is at least 0.
C2_SlackZeroOnCriticalPath ==
    (HasSlack /\ Acyclic(tasks)) =>
        /\ DOMAIN result.value.slack_times = TaskIds(tasks)
        /\ \A t \in TaskIds(tasks) :
              IF t \in Range(get_critical_path(tasks, cycles))
              THEN result.value.slack_times[t] = 0
              ELSE result.value.slack_times[t] >= 0

C2_Witness ==
    /\ result.op = "calculate_slack_times"
    /\ Acyclic(tasks)
    /\ Len(get_critical_path(tasks, cycles)) >= 2
    /\ \E t \in TaskIds(tasks) : result.value.slack_times[t] > 0

\* C3: no task ever has earliest start after latest start: every slack
\* returned by calculate_slack_times is at least 0, and every row of
\* get_advanced_analysis has earliest_start <= latest_start and slack equal
\* to their difference, on acyclic and on cyclic task lists alike.
C3_EarliestNotAfterLatest ==
    /\ \A t \in DOMAIN earliest_start_times \cap DOMAIN latest_start_times :
          earliest_start_times[t] <= latest_start_times[t]
    /\ HasSlack => \A t \in DOMAIN result.value.slack_times :
                      result.value.slack_times[t] >= 0
    /\ result.op = "get_advanced_analysis" =>
          \A t \in TaskIds(tasks) :
              LET row == result.value.task_schedule[t]
              IN /\ row.earliest_start <= row.latest_start
                 /\ row.slack = row.latest_start - row.earliest_start

C3_Witness ==
    /\ result.op = "get_advanced_analysis"
    /\ cycles /= <<>>
    /\ \E t \in TaskIds(tasks) : result.value.task_schedule[t].slack > 0
    /\ \E t \in TaskIds(tasks) : result.value.task_schedule[t].earliest_start > 0

\* the cycles of the task list all run over two or more tasks, and there is one
CyclesOverTwoOrMore(ts) ==
    /\ cycles /= <<>>
    /\ \A k \in DOMAIN cycles : Len(cycles[k]) >= 2

\* C4: when the dependencies contain cycles over two or more tasks, the graph
\* left after each detected cycle had its lowest-duration edge removed is
\* acyclic, get_critical_path returns a path, and earliest start, latest
\* start and slack are computed for every task.
C4_CyclesAreBroken ==
    CyclesOverTwoOrMore(tasks) =>
        /\ IsDAG(TaskIds(tasks), EffectiveGraph(tasks, cycles))
        /\ result.op = "get_critical_path_details" =>
              /\ result.value.path_ids /= <<>>
              /\ Range(result.value.path_ids) \subseteq TaskIds(tasks)
        /\ HasSlack =>
              /\ DOMAIN earliest_start_times = TaskIds(tasks)
              /\ DOMAIN latest_start_times = TaskIds(tasks)
              /\ DOMAIN result.value.slack_times = TaskIds(tasks)

C4_Witness ==
    /\ result.op = "get_critical_path_details"
    /\ Len(cycles) >= 2
    /\ \E k \in DOMAIN cycles : Len(cycles[k]) = 3
    /\ \A k \in DOMAIN cycles : Len(cycles[k]) >= 2
    /\ Len(result.value.path_ids) = 3

SevenLists(report) ==
    <<report.risks.no_resources, report.risks.no_dependencies,
      report.risks.bottlenecks, report.risks.overloaded_resources,
      report.risks.timeline_risks, report.risks.dependency_conflicts,
      report.risks.resource_conflicts>>

\* C5: for the empty task list get_critical_path_details returns an empty
\* path, total duration 0 and empty slack, and detect_risks returns seven
\* empty lists, total_risks 0 and the lowest risk level.
C5_EmptyTaskList ==
    tasks = <<>> =>
        /\ result.op = "get_critical_path_details" =>
              /\ result.value.path_ids = <<>>
              /\ result.value.total_duration = 0
              /\ result.value.slack_times = <<>>
        /\ result.op = "detect_risks" =>
              /\ \A k \in 1..7 : SevenLists(result.value.report)[k] = <<>>
              /\ result.value.report.total_risks = 0
              /\ result.value.report.risk_level = TresFaible

C5_Witness ==
    /\ tasks = <<>>
    /\ result.op = "detect_risks"
    /\ result.value.report.total_risks = 0

\* C10: the no-resources detector flags exactly the tasks whose resource
\* list is empty or holds only blank entries, with level High when the task
\* id is in the critical-path id set passed in and Medium otherwise.
C10_NoResources ==
    result.op = "detect_risks" =>
        LET flagged == result.value.report.risks.no_resources
            cp == result.value.critical_path_ids
        IN /\ {flagged[k].id : k \in DOMAIN flagged} =
                 {tasks[i].id : i \in {j \in DOMAIN tasks :
                     \A k \in DOMAIN tasks[j].ressources_requises :
                         tasks[j].ressources_requises[k] = ""}}
           /\ \A k \in DOMAIN flagged :
                 flagged[k].risk_level = IF flagged[k].id \in cp THEN Eleve ELSE Moyen

C10_Witness ==
    /\ result.op = "detect_risks"
    /\ Len(tasks) = 2
    /\ tasks[1].ressources_requises = <<"", "">>
    /\ tasks[2].ressources_requises = <<"", "Alice">>
    /\ result.value.critical_path_ids = {1}
    /\ Len(result.value.report.risks.no_resources) = 1
    /\ result.value.report.risks.no_resources[1].risk_level = Eleve

\* the raw task list of a project object that holds one under "tasks"
HasRawTaskList == isinstance(raw_data, "dict") /\ "tasks" \in DOMAIN raw_data[2]
                    /\ isinstance(raw_data[2]["tasks"], "list")

SourceList == raw_data[2]["tasks"][2]

Parsed == result.op \in {"AIJsonAnalyzer", "ProjectParser"} /\ result.value.constructed
              /\ result.value.error = "none"

\* C6 (as stated): every task of the normalizer's output has a non-empty
\* string id, and no two tasks of the output share an id.
C6_IdsNonEmptyUnique ==
    Parsed =>
        LET out == result.value.tasks
        IN /\ \A i \in DOMAIN out : isinstance(out[i].id, "str") /\ out[i].id[2] /= ""
           /\ \A i, j \in DOMAIN out : i /= j => out[i].id /= out[j].id

\* two task objects with the same id come out of the analyzer with that id
C6_Witness ==
    /\ result.op = "AIJsonAnalyzer"
    /\ Parsed
    /\ raw_data = Project("tasks", ListV(<<DictV([id |-> StrV("A")]),
                                           DictV([id |-> StrV("A")])>>))
    /\ Len(result.value.tasks) = 2
    /\ result.value.tasks[1].id = StrV("A")
    /\ result.value.tasks[2].id = StrV("A")

\* the canonical fields of a normalized task list
CanonicalView(nt) == [i \in DOMAIN nt |-> [k \in CanonicalKeys |-> nt[i][k]]]

\* the normalized tasks of the construction on raw_data
AnalyzedTasks ==
    IF isinstance(LoadedData(raw_data), "dict")
    THEN _detect_tasks(CHOOSE task_list \in TaskListChoices(raw_data) : TRUE)
    ELSE <<>>

\* C7: normalizing the normalizer's output, written back under the canonical
\* field names, yields the same task list, canonical field by canonical
\* field: _detect_tasks yields it, and the analyzer built on it holds it.
C7_Idempotent ==
    result.op = "Renormalize" =>
        /\ CanonicalView(AnalyzedTasks) = CanonicalView(result.value.first)
        /\ result.value.again.constructed =>
                result.value.again.tasks = AnalyzedTasks

C7_Witness ==
    /\ result.op = "Renormalize"
    /\ Len(result.value.first) = 2
    /\ result.value.first[1].dependencies = ListV(<<StrV("A"), StrV("B")>>)
    /\ result.value.first[1].original[2] = [dependencies |-> StrV("A, B")]
    /\ result.value.first[2].id = StrV("task_2")
    /\ result.value.first[2].original[2] = <<>>
    /\ result.value.again.tasks[2].id = StrV("task_2")

\* whether a raw task object carries one of the keys
HasAny(task, keys) == FirstKey(task[2], keys) /= 0

\* C8 (as stated): a task object lacking every recognized key of an
\* attribute is normalized without failure to that attribute's default, and
\* no task object of the source list is dropped.  For ProjectParser, whose
\* output fields are French, the part stated is that no task is dropped.
C8_DefaultsNeverDrop ==
    (HasRawTaskList /\ \A i \in DOMAIN SourceList : isinstance(SourceList[i], "dict")) =>
        /\ (result.op \in {"AIJsonAnalyzer", "ProjectParser"}
              /\ \A i \in DOMAIN SourceList : DOMAIN SourceList[i][2] \subseteq {"foo"})
            => result.value.error = "none"
        /\ Parsed => Len(result.value.tasks) = Len(SourceList)
        /\ (Parsed /\ result.op = "AIJsonAnalyzer") =>
             \A i \in DOMAIN SourceList :
                LET raw == SourceList[i]
                    out == result.value.tasks[i]
                IN /\ ~HasAny(raw, id_keys) => out.id = StrV("task_" \o str(IntV(i)))
                   /\ ~HasAny(raw, duration_keys) => out.duration = IntV(1)
                   /\ ~HasAny(raw, unit_keys) => out.duration_unit = StrV("days")
                   /\ ~HasAny(raw, pred_keys) => out.dependencies = ListV(<<>>)
                   /\ ~HasAny(raw, resource_keys) => out.resources = ListV(<<>>)
                   /\ ~HasAny(raw, desc_keys) => out.description = StrV("")
                   /\ ~HasAny(raw, status_keys) => out.status = StrV("not_started")

\* a task object without id is missing from what ProjectParser returns
C8_Witness ==
    /\ result.op = "ProjectParser"
    /\ Parsed
    /\ raw_data = Project("tasks", ListV(<<DictV([nom |-> StrV("Plan")])>>))
    /\ result.value.tasks = <<>>

\* whether the value handed in is, or is JSON text of, a non-empty object
IsNonEmptyObject(v) ==
    \/ isinstance(v, "dict") /\ Truthy(v)
    \/ /\ isinstance(v, "str")
       /\ isinstance(json_loads[v[2]], "dict")
       /\ Truthy(json_loads[v[2]])

\* C9 (as stated): normalize raises ValueError, and builds nothing, whenever
\* its input is not a JSON object or is empty or absent, and raises no
\* ValueError on a non-empty JSON object.
C9_ValidationError ==
    result.op \in {"AIJsonAnalyzer", "ProjectParser"} =>
        IF IsNonEmptyObject(raw_data)
        THEN result.value.error /= "ValueError"
        ELSE result.value.error = "ValueError" /\ ~result.value.constructed

\* JSON text of an array makes the analyzer raise AttributeError
C9_Witness ==
    /\ result.op = "AIJsonAnalyzer"
    /\ raw_data = StrV("[1, 2]")
    /\ result.value.error = "AttributeError"


\* the tasks (by index) a resource name is assigned to
AssignedTo(r) == {i \in DOMAIN tasks : r \in Range(tasks[i].ressources_requises)}

\* C11: the overloaded-resource detector flags a resource exactly when the
\* number of tasks it is assigned to is greater than 3, reports that number
\* of tasks as task_count, and gives level High when one of those tasks is in
\* the critical-path id set and Medium otherwise.
C11_OverloadedByTaskCount ==
    result.op = "detect_risks" =>
        LET over == result.value.report.risks.overloaded_resources
            cp == result.value.critical_path_ids
        IN /\ DOMAIN over = {r \in ResourceNames(tasks) :
                                Cardinality(AssignedTo(r)) > OverloadThreshold}
           /\ \A r \in DOMAIN over :
                 /\ over[r].task_count = Cardinality(AssignedTo(r))
                 /\ over[r].risk_level =
                       IF \E i \in AssignedTo(r) : tasks[i].id \in cp THEN Eleve ELSE Moyen

\* four tasks that each list "Alice" once: Alice is flagged with task_count 4
C11_Witness ==
    /\ result.op = "detect_risks"
    /\ Len(tasks) = 4
    /\ result.value.critical_path_ids = {2}
    /\ "Alice" \in DOMAIN result.value.report.risks.overloaded_resources
    /\ result.value.report.risks.overloaded_resources["Alice"].task_count = 4
    /\ result.value.report.risks.overloaded_resources["Alice"].risk_level = Eleve


\* len() of the k-th of the seven detector lists of a report; the two lists
\* kept per resource name count one entry per flagged resource and one per
\* conflict
ListLen(report, k) ==
    LET l == SevenLists(report)[k]
    IN IF k = 4 THEN Cardinality(DOMAIN l)
       ELSE IF k = 7 THEN CountAll(l, DOMAIN l)
       ELSE Len(l)

\* C12: the overall risk level of detect_risks is decided by total_risks,
\* the sum of the lengths of the seven detector lists: 0 gives Very Low,
\* 1-2 Low, 3-5 Medium, 6 or more High.
C12_RiskLevelFromTotal ==
    result.op = "detect_risks" =>
        LET report == result.value.report
            total == SeqSum([k \in 1..7 |-> ListLen(report, k)])
        IN /\ report.total_risks = total
           /\ report.risk_level =
                 IF total = 0 THEN TresFaible
                 ELSE IF total \in 1..2 THEN Faible
                 ELSE IF total \in 3..5 THEN Moyen
                 ELSE Eleve

C12_Witness ==
    /\ result.op = "detect_risks"
    /\ ListLen(result.value.report, 4) = 1
    /\ ListLen(result.value.report, 7) = 1
    /\ result.value.report.total_risks = 6
    /\ result.value.report.risk_level = Eleve


\* the task list without the dependency entries that name no task
StripDangling(ts) ==
    [i \in DOMAIN ts |-> [ts[i] EXCEPT !.predecesseurs = @ \cap TaskIds(ts)]]

HasDangling(ts) == \E i \in DOMAIN ts : ts[i].predecesseurs \ TaskIds(ts) /= {}

\* C13: the graph built from the task list has the task ids as nodes and an
\* edge u -> v exactly when task v lists u as a dependency and u is the id of
\* a task; a dependency id that names no task adds no node and no edge, and
\* the critical path, durations and slack come out as for the same task list
\* without that reference.
C13_DanglingDependencyIgnored ==
    LET G == _build_graph(tasks)
    IN /\ \A e \in G : e[1] \in TaskIds(tasks) /\ e[2] \in TaskIds(tasks)
       /\ \A i \in DOMAIN tasks : \A u \in tasks[i].predecesseurs :
             (<<u, tasks[i].id>> \in G) = (u \in TaskIds(tasks))
       /\ \A e \in G : \E i \in DOMAIN tasks :
             tasks[i].id = e[2] /\ e[1] \in tasks[i].predecesseurs
       /\ result.op = "get_critical_path_details" =>
             result.value =
                 get_critical_path_details(StripDangling(tasks), cycles, <<>>, <<>>).value
       /\ result.op = "get_advanced_analysis" =>
             result.value =
                 get_advanced_analysis(StripDangling(tasks), cycles, <<>>, <<>>).value

\* two tasks that both name a missing task, the second also the first
C13_Witness ==
    /\ HasDangling(tasks)
    /\ _build_graph(tasks) = {<<1, 2>>}
    /\ result.op = "get_critical_path_details"
    /\ result.value.path_ids = <<1, 2>>
    /\ result.value.total_duration = 3


\* some task lists its own id as a dependency
HasSelfDependency(ts) == \E i \in DOMAIN ts : ts[i].id \in ts[i].predecesseurs

\* C14: a task that lists its own id as a dependency contributes no edge:
\* the graph used for scheduling has no self-loop, and earliest start,
\* latest start and slack are computed for every task of the project.
C14_SelfDependencyDropped ==
    result.op = "calculate_slack_times" =>
        /\ \A t \in TaskIds(tasks) : <<t, t>> \notin EffectiveGraph(tasks, cycles)
        /\ DOMAIN earliest_start_times = TaskIds(tasks)
        /\ DOMAIN latest_start_times = TaskIds(tasks)
        /\ DOMAIN result.value.slack_times = TaskIds(tasks)

\* one task depending on itself beside an independent task: the self-loop
\* is still in the graph and no task has a slack
C14_Witness ==
    /\ Len(tasks) = 2
    /\ tasks[1].predecesseurs = {1}
    /\ tasks[2].predecesseurs = {}
    /\ result.op = "calculate_slack_times"
    /\ <<1, 1>> \in EffectiveGraph(tasks, cycles)
    /\ result.value.slack_times = <<>>


\* a list value whose elements are all str
IsListOfStr(v) ==
    isinstance(v, "list") /\ \A k \in DOMAIN v[2] : isinstance(v[2][k], "str")

\* C15: after normalization every task's dependencies and every task's
\* resources are a sequence of strings, whatever the input shape: a
\* comma-separated dependency string is split and trimmed, a scalar becomes a
\* one-element sequence and array elements come out as strings.
C15_SequencesOfStrings ==
    (result.op = "AIJsonAnalyzer" /\ Parsed) =>
        \A i \in DOMAIN result.value.tasks :
            /\ IsListOfStr(result.value.tasks[i].dependencies)
            /\ IsListOfStr(result.value.tasks[i].resources)

\* task 7 and a task depending on [7]: the entry stays the int 7, which is
\* not the id "7", so the graph has no edge between the two
C15_Witness ==
    /\ result.op = "AIJsonAnalyzer"
    /\ Parsed
    /\ raw_data = Project("tasks", ListV(<<DictV([id |-> IntV(7)]),
                                           DictV([dependencies |-> ListV(<<IntV(7)>>)])>>))
    /\ result.value.tasks[1].id = StrV("7")
    /\ result.value.tasks[2].dependencies = ListV(<<IntV(7)>>)
    /\ GraphEdges(result.value.tasks) = {}


NormalizedDuration(t) ==
    IF result.op = "AIJsonAnalyzer" THEN t.duration ELSE t.duree_estimee

\* C17: every normalized task has a numeric duration >= 0 (1 when the source
\* duration is absent, non-numeric or negative), and normalization followed
\* by the critical-path computation does not fail because of a duration.
C17_DurationNumericNonNegative ==
    /\ (result.op = "AIJsonAnalyzer" /\ isinstance(raw_data, "dict") /\ Truthy(raw_data))
          => result.value.error /= "ValueError"
    /\ Parsed =>
          \A i \in DOMAIN result.value.tasks :
              LET d == NormalizedDuration(result.value.tasks[i])
              IN isinstance(d, "int") /\ d[2] >= 0

\* a task with duration -1 comes out of the analyzer with duration -1
C17_Witness ==
    /\ result.op = "AIJsonAnalyzer"
    /\ Parsed
    /\ raw_data = Project("tasks", ListV(<<DictV([duration |-> IntV(-1)])>>))
    /\ result.value.tasks[1].duration = IntV(-1)


\* C18: for every acyclic task list a task is reported as critical (member
\* of the reported critical path, is_critical in the schedule rows) if and
\* only if its slack is 0, also when several source-to-sink paths tie for the
\* maximum total duration.
C18_CriticalIffZeroSlack ==
    Acyclic(tasks) =>
        /\ result.op = "get_critical_path_details" =>
              \A t \in TaskIds(tasks) :
                  (t \in Range(result.value.path_ids)) = (result.value.slack_times[t] = 0)
        /\ result.op = "get_advanced_analysis" =>
              \A t \in TaskIds(tasks) :
                  result.value.task_schedule[t].is_critical =
                      (result.value.task_schedule[t].slack = 0)

\* two independent tasks of the same duration: both have slack 0, the
\* reported path holds the first only
C18_Witness ==
    /\ Len(tasks) = 2
    /\ tasks[1].predecesseurs = {} /\ tasks[2].predecesseurs = {}
    /\ tasks[1].duree_estimee = 1 /\ tasks[2].duree_estimee = 1
    /\ result.op = "get_advanced_analysis"
    /\ result.value.task_schedule[1].is_critical
    /\ result.value.task_schedule[2].slack = 0
    /\ ~result.value.task_schedule[2].is_critical


\* the calculator has run its two passes on a graph that is acyclic once the
\* cycles are broken
Scheduled ==
    /\ result.op \in {"calculate_slack_times", "get_critical_path_details",
                       "get_advanced_analysis"}
    /\ IsDAG(TaskIds(tasks), EffectiveGraph(tasks, cycles))

\* C19: on the effective graph every task has an earliest start: 0 for a
\* task without predecessors, otherwise the maximum over its predecessors p
\* of the earliest start of p plus the duration of p.
C19_EarliestStartRecurrence ==
    Scheduled =>
        LET E == EffectiveGraph(tasks, cycles)
            es == earliest_start_times
        IN /\ DOMAIN es = TaskIds(tasks)
           /\ \A n \in TaskIds(tasks) :
                 es[n] = IF predecessors(E, n) = {} THEN 0
                         ELSE SetMax({es[p] + Weight(tasks, p) : p \in predecessors(E, n)})

\* the diamond 1 -> {2, 3} -> 4 with durations 2, 5, 1, 3: task 4 starts
\* after the longer branch
C19_Witness ==
    /\ tasks = ExampleTasks
    /\ result.op = "calculate_slack_times"
    /\ earliest_start_times = <<0, 2, 2, 7>>

\* C20: on the effective graph the latest start of a task without
\* successors is project_duration minus its duration, and of any other task
\* the minimum over its successors of their latest start, minus its
\* duration; project_duration is the maximum over the tasks of earliest
\* start plus duration.
C20_LatestStartRecurrence ==
    (Scheduled /\ tasks /= <<>>) =>
        LET E == EffectiveGraph(tasks, cycles)
            es == earliest_start_times
            ls == latest_start_times
            project_duration == SetMax({es[t] + Weight(tasks, t) : t \in TaskIds(tasks)})
        IN /\ DOMAIN ls = TaskIds(tasks)
           /\ \A n \in TaskIds(tasks) :
                 ls[n] = IF successors(E, n) = {}
                         THEN project_duration - Weight(tasks, n)
                         ELSE SetMin({ls[s] : s \in successors(E, n)}) - Weight(tasks, n)

\* the same diamond: task 3, on the shorter branch, may start as late as 6
C20_Witness ==
    /\ tasks = ExampleTasks
    /\ result.op = "get_critical_path_details"
    /\ latest_start_times = <<0, 2, 6, 7>>

\* C21: the near-critical list reported with the critical path holds exactly
\* the tasks that are not on the critical path and whose slack is more than
\* 0 and at most 2; a task with slack 0 is never listed.
C21_NearCriticalSlackRange ==
    result.op = "get_critical_path_details" =>
        result.value.near_critical_tasks =
            {t \in DOMAIN result.value.slack_times :
                /\ t \notin Range(result.value.path_ids)
                /\ result.value.slack_times[t] > 0
                /\ result.value.slack_times[t] <= 2}

\* two independent tasks of duration 2: the second has slack 0, is not on
\* the reported path and is listed as near-critical
C21_Witness ==
    /\ Len(tasks) = 2
    /\ tasks[1].predecesseurs = {} /\ tasks[2].predecesseurs = {}
    /\ tasks[1].duree_estimee = 2 /\ tasks[2].duree_estimee = 2
    /\ result.op = "get_critical_path_details"
    /\ result.value.path_ids = <<1>>
    /\ result.value.slack_times[2] = 0
    /\ result.value.near_critical_tasks = {2}

\* the largest duration of the task list
MaxDuration(ts) == SetMax({ts[i].duree_estimee : i \in DOMAIN ts})

\* C22: for a non-empty task list whose graph has no edge, every task is
\* both a source and a sink, and the reported critical path is a single task
\* of the highest duration, with total_duration equal to that duration.
C22_NoEdgesSingleLongestTask ==
    (tasks /= <<>> /\ _build_graph(tasks) = {}
     /\ result.op = "get_critical_path_details") =>
        /\ \A n \in TaskIds(tasks) :
              in_degree(EffectiveGraph(tasks, cycles), n) = 0
              /\ out_degree(EffectiveGraph(tasks, cycles), n) = 0
        /\ Len(result.value.path_ids) = 1
        /\ result.value.path_ids[1] \in TaskIds(tasks)
        /\ Weight(tasks, result.value.path_ids[1]) = MaxDuration(tasks)
        /\ result.value.total_duration = MaxDuration(tasks)

\* two independent tasks of durations 1 and 2: the path is task 2
C22_Witness ==
    /\ Len(tasks) = 2
    /\ \A i \in 1..2 : tasks[i].predecesseurs = {}
    /\ tasks[1].duree_estimee = 1 /\ tasks[2].duree_estimee = 2
    /\ result.op = "get_critical_path_details"
    /\ result.value.path_ids = <<2>>
    /\ result.value.total_duration = 2

\* C23: the orphan detector flags a task, with level Low, exactly when the
\* task has at least one dependency and no other task names it as a
\* dependency; a task named only by itself is still flagged.
C23_OrphanTasks ==
    result.op = "detect_risks" =>
        LET flagged == result.value.report.risks.no_dependencies
        IN /\ {flagged[k].id : k \in DOMAIN flagged} =
                 {tasks[i].id : i \in {j \in DOMAIN tasks :
                     /\ tasks[j].predecesseurs /= {}
                     /\ \A o \in DOMAIN tasks :
                           o /= j => tasks[j].id \notin tasks[o].predecesseurs}}
           /\ \A k \in DOMAIN flagged : flagged[k].risk_level = Faible

\* task 2 depends on task 1 and on itself and no other task names it: it is
\* not flagged
C23_Witness ==
    /\ Len(tasks) = 2
    /\ tasks[1].predecesseurs = {}
    /\ tasks[2].predecesseurs = {1, 2}
    /\ result.op = "detect_risks"
    /\ result.value.report.risks.no_dependencies = <<>>

\* C24: the timeline-risk detector flags a task exactly when it has more
\* than 2 dependencies or more than 2 resources and its duration is less
\* than 3, duration 0 included, with level High when the task is in the
\* critical-path id set and Medium otherwise.
C24_TimelineRisks ==
    result.op = "detect_risks" =>
        LET flagged == result.value.report.risks.timeline_risks
            cp == result.value.critical_path_ids
        IN /\ {flagged[k].id : k \in DOMAIN flagged} =
                 {tasks[i].id : i \in {j \in DOMAIN tasks :
                     /\ \/ Cardinality(tasks[j].predecesseurs) > 2
                        \/ Len(tasks[j].ressources_requises) > 2
                     /\ tasks[j].duree_estimee < 3}}
           /\ \A k \in DOMAIN flagged :
                 flagged[k].risk_level = IF flagged[k].id \in cp THEN Eleve ELSE Moyen

\* a task of duration 0 with three dependencies and three resources is not
\* flagged
C24_Witness ==
    /\ Len(tasks) = 4
    /\ tasks[4].duree_estimee = 0
    /\ tasks[4].predecesseurs = {1, 2, 3}
    /\ Len(tasks[4].ressources_requises) = 3
    /\ result.op = "detect_risks"
    /\ result.value.report.risks.timeline_risks = <<>>

\* the walks the expansion of a task's dependency chain makes: they start at
\* the task, each step goes from a task to one of its dependencies that is
\* a task, and a walk ends where it meets a task it has already passed
BranchWalks(ts, t) ==
    LET ids == TaskIds(ts)
        dm == dependency_map(ts)
    IN {w \in UNION {[1..k -> ids] : k \in 1..(Cardinality(ids) + 1)} :
          /\ w[1] = t
          /\ \A i \in 1..(Len(w) - 1) : w[i + 1] \in dm[w[i]]
          /\ \A i, j \in 1..(Len(w) - 1) : i /= j => w[i] /= w[j]}

\* C25: for every dependency map, cycles and self-references included, the
\* expansion of a dependency chain ends: a task met again on the current
\* branch ends the branch, sibling branches do not share what they visited,
\* and _detect_dependency_conflicts flags a task, High on the critical path
\* and Medium otherwise, exactly when its expanded chain has more than 5
\* entries.
C25_DependencyChains ==
    result.op = "detect_risks" =>
        LET flagged == result.value.report.risks.dependency_conflicts
            cp == result.value.critical_path_ids
        IN /\ result.value.error = "none"
           /\ {flagged[k].task_id : k \in DOMAIN flagged} =
                 {t \in TaskIds(tasks) : Cardinality(BranchWalks(tasks, t)) > ChainThreshold}
           /\ \A k \in DOMAIN flagged :
                 flagged[k].risk_level = IF flagged[k].task_id \in cp THEN Eleve ELSE Moyen

\* task 1 depends on 2 and 3, task 2 on 1, task 3 on 2: the chain of task 1
\* has six entries and only task 1 is flagged
C25_Witness ==
    /\ Len(tasks) = 3
    /\ tasks[1].predecesseurs = {2, 3}
    /\ tasks[2].predecesseurs = {1}
    /\ tasks[3].predecesseurs = {2}
    /\ Cardinality(BranchWalks(tasks, 1)) = 6
    /\ result.op = "detect_risks"
    /\ Len(result.value.report.risks.dependency_conflicts) = 1
    /\ result.value.report.risks.dependency_conflicts[1].task_id = 1

\* C26: every conflict reported for a resource consists of at least two
\* distinct tasks assigned to that resource, none of which depends directly
\* on another task of the group; a resource assigned to a single task
\* produces no conflict.
C26_ConflictGroups ==
    result.op = "detect_risks" =>
        LET rc == result.value.report.risks.resource_conflicts
        IN \A r \in DOMAIN rc : \A g \in DOMAIN rc[r] :
              LET group == Range(rc[r][g].conflicting_tasks)
              IN /\ Cardinality(group) >= 2
                 /\ group \subseteq AssignedTo(r)
                 /\ \A i, j \in group : i /= j => tasks[i].id \notin tasks[j].predecesseurs

\* one task that lists "Alice" twice: a conflict of that task with itself
C26_Witness ==
    /\ Len(tasks) = 1
    /\ tasks[1].ressources_requises = <<"Alice", "Alice">>
    /\ result.op = "detect_risks"
    /\ "Alice" \in DOMAIN result.value.report.risks.resource_conflicts
    /\ Len(result.value.report.risks.resource_conflicts["Alice"]) = 1
    /\ result.value.report.risks.resource_conflicts["Alice"][1].conflicting_tasks = <<1, 1>>

\* C27: whenever AIJsonAnalyzer is built on a project whose dependency graph
\* has cycles (the durations being numbers and the dependencies hashable),
\* whatever the order and rotation networkx lists the cycles in, the
\* construction returns without raising and calculate_critical_path goes on
\* with an acyclic graph whose nodes carry their weights
C27_CyclesBrokenWithoutFailure ==
    (/\ result.op = "AIJsonAnalyzer"
     /\ cycles /= <<>>
     /\ calculate_critical_path_error(AnalyzedTasks, <<>>) = "none")
    => LET G == break_cycles(AnalyzedTasks, cycles)
       IN /\ result.value.error = "none"
          /\ IsDAG(G.nodes, G.edges)
          /\ G.weighted

C27_Witness ==
    /\ result.op = "AIJsonAnalyzer"
    /\ raw_data = CyclicProject
    /\ cycles = <<<<"7", "A">>, <<"7", "A", "B">>, <<"A", "B">>>>
    /\ result.value.error = "KeyError"
    /\ ~break_cycles(AnalyzedTasks, cycles).weighted

\* C28: the recommendations of a report are a function of its seven risk
\* lists (the bottlenecks on the critical path being those reported "Élevé"),
\* and a report with total_risks > 0 has at least one recommendation
C28_Recommendations ==
    (result.op = "detect_risks" /\ result.value.error = "none") =>
        LET risks == result.value.report.risks
            critical == {risks.bottlenecks[k].id :
                            k \in {j \in DOMAIN risks.bottlenecks :
                                      risks.bottlenecks[j].risk_level = Eleve}}
        IN /\ result.value.report.recommendations =
                _generate_recommendations(risks.no_resources, risks.no_dependencies,
                    risks.bottlenecks, risks.overloaded_resources, risks.timeline_risks,
                    risks.dependency_conflicts, risks.resource_conflicts, critical)
           /\ result.value.report.total_risks > 0 =>
                result.value.report.recommendations /= <<>>

\* two independent tasks assigned to Alice: one resource conflict, nothing
\* else, and no recommendation
C28_Witness ==
    /\ result.op = "detect_risks"
    /\ result.value.error = "none"
    /\ Len(tasks) = 2
    /\ result.value.report.total_risks = 1
    /\ DOMAIN result.value.report.risks.resource_conflicts = {"Alice"}
    /\ result.value.report.recommendations = <<>>

\* the risk report upload_project computes and stores:
\* RiskDetector(tasks).detect_risks(), no critical path given
upload_project_risks(ts) == detect_risks(ts, {})

\* the analysis get_risk_charts returns for the session:
\* RiskDetector(tasks, critical_path['path_ids']).detect_risks(), on the
\* path_ids get_critical_path_details stored at the upload
get_risk_charts_analysis(ts, cs) == detect_risks(ts, Range(get_critical_path(ts, cs)))

\* C29: for every task list, the report stored by the upload and the report
\* the risk-analysis endpoint returns for the same session flag the same
\* entities with the same risk levels
C29_StoredAndServedRisksAgree ==
    (result.op = "detect_risks" /\ result.value.error = "none") =>
        upload_project_risks(tasks).risks = get_risk_charts_analysis(tasks, cycles).risks

\* one task without resources, which is the critical path: "Moyen" in the
\* stored report, "Élevé" in the served one
C29_Witness ==
    /\ result.op = "detect_risks"
    /\ result.value.error = "none"
    /\ Len(tasks) = 1
    /\ tasks[1].duree_estimee = 1
    /\ result.value.critical_path_ids = {1}
    /\ result.value.report = get_risk_charts_analysis(tasks, cycles)
    /\ result.value.report.risks.no_resources[1].risk_level = Eleve
    /\ upload_project_risks(tasks).risks.no_resources[1].risk_level = Moyen

\* ------------------------------------------------------ session store
\* Time is counted in half hours.  SESSION_CLEANUP_INTERVAL = 3600 seconds,
\* and a session expires timedelta(days=30) after its upload.
SESSION_CLEANUP_INTERVAL == 2

SessionLifetime == 1440

\* most sessions uploaded
MaxSessions == 2

\* the latest instant of a request, in half hours after the lifetime of a
\* session uploaded at 0
MaxLate == 1

\* the instants the clock stands at when a request arrives
Instants == {0, 1} \cup {SessionLifetime + k : k \in 0..MaxLate}

\* the task lists get_tasks hands to upload_project: none, and one task
UploadTaskLists == {<<>>, MkTasks(1, <<1>>, {}, NoRes(1))}

\* the answer of an endpoint: its HTTP status and, with it, the stored data
\* it returns; `at` is the instant of the request
Response(op, session_id, status, data) ==
    [op |-> op,
     value |-> [session_id |-> session_id, status |-> status, at |-> now, data |-> data]]

\* datetime.now() > session_data['expiry']
Expired(session_data, t) == t > session_data.expiry

\* cleanup_expired_sessions: nothing within SESSION_CLEANUP_INTERVAL of the
\* last sweep, else the expired sessions deleted
cleanup_expired_sessions(sessions, last, t) ==
    IF t - last < SESSION_CLEANUP_INTERVAL
    THEN [user_sessions |-> sessions, LAST_CLEANUP_TIME |-> last]
    ELSE LET expired_sessions == {sid \in DOMAIN sessions : Expired(sessions[sid], t)}
         IN [user_sessions |-> [sid \in DOMAIN sessions \ expired_sessions |-> sessions[sid]],
             LAST_CLEANUP_TIME |-> t]

\* the module as loaded
InitSession ==
    /\ tasks = <<>>
    /\ cycles = <<>>
    /\ earliest_start_times = <<>>
    /\ latest_start_times = <<>>
    /\ raw_data = None
    /\ result = NoResult
    /\ NoSessions

\* POST /api/upload, get_tasks having returned ts: a fresh session id; 400
\* without tasks, 500 when the analysis raises, else the session stored for
\* SessionLifetime
upload_project ==
    /\ Cardinality(session_ids) < MaxSessions
    /\ \E ts \in UploadTaskLists : \E cs \in simple_cycles(ts) :
         LET session_id == Cardinality(session_ids) + 1
         IN /\ session_ids' = session_ids \cup {session_id}
            /\ IF ts = <<>>
               THEN /\ result' = Response("upload_project", session_id, 400, <<>>)
                    /\ UNCHANGED user_sessions
               ELSE IF detect_risks_error(ts) /= "none"
               THEN /\ result' = Response("upload_project", session_id, 500, <<>>)
                    /\ UNCHANGED user_sessions
               ELSE LET data == [parsed_data |-> ts,
                                 dashboard_data |->
                                    [status_distribution |->
                                        [non_commencee |-> Len(ts), en_cours |-> 0,
                                         terminee |-> 0, en_retard |-> 0]],
                                 critical_path |-> get_critical_path(ts, cs),
                                 risks |-> upload_project_risks(ts),
                                 expiry |-> now + SessionLifetime]
                    IN /\ user_sessions' =
                            [sid \in DOMAIN user_sessions \cup {session_id} |->
                                IF sid = session_id THEN data ELSE user_sessions[sid]]
                       /\ result' = Response("upload_project", session_id, 200,
                                             [k \in {"parsed_data", "critical_path", "risks",
                                                     "dashboard_data"} |-> data[k]])
    /\ UNCHANGED <<tasks, cycles, earliest_start_times, latest_start_times, raw_data,
                   LAST_CLEANUP_TIME, now>>

\* GET /api/session/<session_id>: the sweep, then 404 for an unknown id, 410
\* and the session deleted when it has expired, else the stored data
get_session_data ==
    /\ \E session_id \in 1..MaxSessions :
         LET swept == cleanup_expired_sessions(user_sessions, LAST_CLEANUP_TIME, now)
             sessions == swept.user_sessions
         IN /\ LAST_CLEANUP_TIME' = swept.LAST_CLEANUP_TIME
            /\ IF session_id \notin DOMAIN sessions
               THEN /\ user_sessions' = sessions
                    /\ result' = Response("get_session_data", session_id, 404, <<>>)
               ELSE IF Expired(sessions[session_id], now)
               THEN /\ user_sessions' =
                          [sid \in DOMAIN sessions \ {session_id} |-> sessions[sid]]
                    /\ result' = Response("get_session_data", session_id, 410, <<>>)
               ELSE /\ user_sessions' = sessions
                    /\ result' = Response("get_session_data", session_id, 200,
                                          [k \in {"parsed_data", "critical_path", "risks",
                                                  "dashboard_data"} |->
                                              sessions[session_id][k]])
    /\ UNCHANGED <<tasks, cycles, earliest_start_times, latest_start_times, raw_data,
                   now, session_ids>>

\* GET /api/dashboard with the cookie session_id: 404 for an id not in the
\* store, else the stored dashboard data
get_dashboard ==
    /\ \E session_id \in 1..MaxSessions :
         result' = IF session_id \notin DOMAIN user_sessions
                   THEN Response("get_dashboard", session_id, 404, <<>>)
                   ELSE Response("get_dashboard", session_id, 200,
                                 user_sessions[session_id].dashboard_data)
    /\ UNCHANGED <<tasks, cycles, earliest_start_times, latest_start_times, raw_data, app_vars>>

\* GET /api/charts/risk-analysis with the cookie session_id: 404 for an id
\* not in the store, else the analysis of the stored tasks on the stored
\* critical path
get_risk_charts ==
    /\ \E session_id \in 1..MaxSessions :
         result' = IF session_id \notin DOMAIN user_sessions
                   THEN Response("get_risk_charts", session_id, 404, <<>>)
                   ELSE LET data == user_sessions[session_id]
                        IN IF detect_risks_error(data.parsed_data) /= "none"
                           THEN Response("get_risk_charts", session_id, 500, <<>>)
                           ELSE Response("get_risk_charts", session_id, 200,
                                         detect_risks(data.parsed_data,
                                                      Range(data.critical_path)))
    /\ UNCHANGED <<tasks, cycles, earliest_start_times, latest_start_times, raw_data, app_vars>>

\* time passes between two requests
AdvanceClock ==
    /\ \E t \in Instants : t > now /\ now' = t
    /\ UNCHANGED <<tasks, cycles, earliest_start_times, latest_start_times, raw_data, result,
                   user_sessions, LAST_CLEANUP_TIME, session_ids>>

NextSession ==
    \/ upload_project
    \/ get_session_data
    \/ get_dashboard
    \/ get_risk_charts
    \/ AdvanceClock

SpecSession == InitSession /\ [][NextSession]_vars

\* the endpoints that read a session
SessionReaders == {"get_session_data", "get_dashboard", "get_risk_charts"}

\* C30: no endpoint answers a request with a session's stored data at an
\* instant after the session's expiry, whether or not the sweep has run
\* since: the answer is not-found or expired
C30_NoDataAfterExpiry ==
    (/\ result.op \in SessionReaders
     /\ result.value.status = 200
     /\ result.value.session_id \in DOMAIN user_sessions)
    => ~Expired(user_sessions[result.value.session_id], result.value.at)

\* a session uploaded at 0 and its dashboard asked for after its expiry, no
\* sweep having run: the stored dashboard data is returned
C30_Witness ==
    /\ result.op = "get_dashboard"
    /\ result.value.session_id = 1
    /\ result.value.status = 200
    /\ result.value.data = user_sessions[1].dashboard_data
    /\ user_sessions[1].expiry = SessionLifetime
    /\ result.value.at = SessionLifetime + 1
    /\ LAST_CLEANUP_TIME = 0

====
